---------------------------- MODULE Spec2Model ----------------------------
(***************************************************************************)
(* Funds-flow graph indexing: the netting pass and the batched graph       *)
(* writer of neurons/miners/bitcoin/funds_flow_v2/graph_indexer.py (and    *)
(* the simple writer of funds_flow/graph_indexer.py), and the backfill     *)
(* workers and head follower of neurons/miners/ethereum/funds_flow/        *)
(* indexer.py.                                                             *)
(*                                                                         *)
(* Five state machines share the module, each with its own variables:      *)
(*   SpecNet   the netting pass applied to one transaction                 *)
(*   SpecPart  the sub-range computation of __main__                       *)
(*   SpecW     one writer call after another on a graph store              *)
(*   Spec      the indexer process: N backfill threads + the main thread   *)
(*   SpecIdx   create_indexes, one call after another                      *)
(*   SpecSync  wait_for_blocks_sync of the miner                           *)
(***************************************************************************)
EXTENDS Integers, Sequences, FiniteSets, TLC

VARIABLES
    \* ---- netting pass (SpecNet)
    net_pc,                 \* "raw" before the netting loop, "netted" after, "emitted" after the records are built
    net_vins,               \* tx.vins of the transaction
    net_vouts,              \* tx.vouts of the transaction
    in_amount_by_address,   \* dict, as a sequence of [address, amount] in insertion order
    out_amount_by_address,  \* dict, as a sequence of [address, amount] in insertion order
    net_resolved,           \* the (tx_id, vout_id) pairs the node adapter was asked to resolve
    net_records,            \* the batch_txns entry and the inputs / outputs lists of the transaction
    \* ---- sub-range computation (SpecPart)
    part_pc,                \* "config" before the for loop of __main__, "split" after
    part_start,             \* start_height
    part_last,              \* last_height
    part_threads,           \* num_threads
    part_ranges,            \* the (start, last) arguments given to the threads, in order
    \* ---- graph writer (SpecW)
    w_pc,                   \* position inside create_graph_focused_on_money_flow
    w_variant,              \* "v2" (netted writer), "v1" (simple writer) or "flow2" (the
                            \* simple writer create_graph_focused_on_money_flow2, which
                            \* takes one transaction at a time)
    w_chain,                \* the blocks the writer is called with: an earlier block, the block under test, the block reissued
    w_block,                \* block_node.transactions of the call
    w_batch_size,           \* batch_size of the calls
    w_i,                    \* the loop variable i of the batch loop (0-based offset)
    w_batch,                \* batch_txns / batch_inputs / batch_outputs of the current batch
    w_store,                \* the committed graph store
    w_pending,              \* the store as seen inside the open transaction
    w_closed,               \* transaction.closed()
    w_ret,                  \* "none" while running, else "True", "False" or "raised"
    w_pre,                  \* the committed store when the call began
    w_fail_at,              \* where the first exception of the call was raised
    w_batches_run,          \* number of batches whose statements all ran in this call
    w_commits,              \* number of transaction.commit() calls that succeeded in this call
    w_calls,                \* number of calls begun so far
    w_progress,             \* what the progress tracker returned when it was last asked
    \* ---- indexer process (Spec)
    shutdown_flag,          \* global shutdown_flag
    tip,                    \* the node's current block height
    pc,                     \* per thread: position in its loop
    start_height,           \* per thread: start_height argument
    last_height,            \* per thread: last_height (backfill: sub-range end)
    current_block_height,   \* per thread: current_block_height local
    block_height,           \* per thread: block_height local (the cursor)
    written,                \* per height: number of committed writes (saturating)
    driver_closed,          \* graph_indexer.close() has been called
    cfg,                    \* the configuration __main__ started with
    req,                    \* per thread: heights requested so far, latest first (bounded)
    hist,                   \* history of the run: failure seen, who began a write of each
                            \* height, write attempts begun by each thread after the signal
    \* ---- schema bootstrap (SpecIdx)
    idx_pc,                 \* position inside create_indexes
    idx_variant,            \* "v2" or "v1": which GraphIndexer
    idx_store,              \* the indexes of the graph store, as rows of SHOW INDEX INFO
    existing_index_set,     \* the local existing_index_set of the call
    idx_k,                  \* position in index_creation_statements.items()
    idx_issued,             \* the indexes a CREATE INDEX was run for in this call
    idx_failed,             \* the indexes whose CREATE INDEX raised in this call
    idx_calls,              \* number of calls begun so far
    idx_last,               \* how the call before this one ended: "none", "clean", "failures", "raised"
    \* ---- miner sync gate (SpecSync)
    sync_pc,                \* position inside wait_for_blocks_sync
    wait_for_sync,          \* config.wait_for_sync
    is_synced,              \* the local is_synced
    sync_latest_block_height,   \* the local latest_block_height: the node's height
    sync_current_block_height,  \* the local current_block_height: get_latest_block_number()
    sync_polls,             \* number of passes of the while loop begun so far
    sync_last,              \* how the last pass ended: "none", "synced", "behind", "raised"
    sync_raises,            \* number of passes that ended in the except clause
    sync_ret,               \* the value returned: "none", "True" or "False"
    \* ---- validator loop (SpecVal)
    val_pc,                 \* position inside main
    val_registered,         \* wallet.hotkey.ss58_address in metagraph.hotkeys
    val_step,               \* the local step
    val_responses,          \* the local responses of the round
    val_index,              \* position of the for loop over responses (1-based)
    val_scored,             \* <<index, data_samples_are_valid>> of the responses scored this round
    val_end                 \* why main ended: "none" while it runs

net_vars == <<net_pc, net_vins, net_vouts, in_amount_by_address, out_amount_by_address,
              net_resolved, net_records>>

part_vars == <<part_pc, part_start, part_last, part_threads, part_ranges>>

w_vars == <<w_pc, w_variant, w_chain, w_block, w_batch_size, w_i, w_batch, w_store, w_pending,
            w_closed, w_ret, w_pre, w_fail_at, w_batches_run, w_commits, w_calls, w_progress>>

ix_vars == <<shutdown_flag, tip, pc, start_height, last_height, current_block_height,
             block_height, written, driver_closed, cfg, req, hist>>

idx_vars == <<idx_pc, idx_variant, idx_store, existing_index_set, idx_k, idx_issued, idx_failed,
              idx_calls, idx_last>>

sync_vars == <<sync_pc, wait_for_sync, is_synced, sync_latest_block_height,
               sync_current_block_height, sync_polls, sync_last, sync_raises, sync_ret>>

val_vars == <<val_pc, val_registered, val_step, val_responses, val_index, val_scored, val_end>>

vars == <<net_vars, part_vars, w_vars, ix_vars, idx_vars, sync_vars, val_vars>>

(***************************************************************************)
(* Python dicts keyed by address, kept as sequences in insertion order.    *)
(***************************************************************************)
DictHas(d, a) ==
    \E k \in 1..Len(d) : d[k].address = a

DictGet(d, a) ==
    d[CHOOSE k \in 1..Len(d) : d[k].address = a].amount

DictSet(d, a, v) ==
    IF DictHas(d, a)
    THEN [k \in 1..Len(d) |-> IF d[k].address = a THEN [address |-> a, amount |-> v] ELSE d[k]]
    ELSE Append(d, [address |-> a, amount |-> v])

\* an accumulation that would keep the last amount of an address
DictAccumulateReplace(d, a, v) ==
    DictSet(d, a, v)

\* if address in d: d[address] += amount  else: d[address] = amount
DictAccumulate(d, a, v) ==
    IF DictHas(d, a) THEN DictSet(d, a, DictGet(d, a) + v) ELSE DictSet(d, a, v)

DictKeys(d) ==
    {d[k].address : k \in 1..Len(d)}

(***************************************************************************)
(* The node adapter's origin lookup.  A vin refers to output vout_id of    *)
(* transaction tx_id; tx_id = 0 is the coinbase sentinel.  The chain the   *)
(* model runs on pays output v of transaction t to address OriginAddress   *)
(* of t with amount v.                                                     *)
(***************************************************************************)
Addresses == <<"A", "B", "C">>

get_address_and_amount_by_txn_id_and_vout_id(tx_id, vout_id) ==
    [address |-> Addresses[tx_id], amount |-> vout_id]

(***************************************************************************)
(* Raw accumulation: lines 122-137 of the netted writer.                   *)
(***************************************************************************)
RECURSIVE AccumulateVins(_, _)
AccumulateVins(vins, d) ==
    IF vins = <<>> THEN d
    ELSE IF Head(vins).tx_id = 0
         THEN AccumulateVins(Tail(vins), d)
         ELSE LET o == get_address_and_amount_by_txn_id_and_vout_id(Head(vins).tx_id,
                                                                     Head(vins).vout_id)
              IN  AccumulateVins(Tail(vins), DictAccumulate(d, o.address, o.amount))

\* lines 122-125: the vins the node adapter is called for
RECURSIVE ResolveCalls(_)
ResolveCalls(vins) ==
    IF vins = <<>> THEN <<>>
    ELSE IF Head(vins).tx_id = 0
         THEN ResolveCalls(Tail(vins))
         ELSE <<Head(vins)>> \o ResolveCalls(Tail(vins))

\* an accumulation in which a later output of an address replaces the earlier one
RECURSIVE AccumulateVoutsOverwrite(_, _)
AccumulateVoutsOverwrite(vouts, d) ==
    IF vouts = <<>> THEN d
    ELSE AccumulateVoutsOverwrite(Tail(vouts),
                                  DictSet(d, Head(vouts).address, Head(vouts).value_satoshi))

RECURSIVE AccumulateVouts(_, _)
AccumulateVouts(vouts, d) ==
    IF vouts = <<>> THEN d
    ELSE AccumulateVouts(Tail(vouts),
                         DictAccumulate(d, Head(vouts).address, Head(vouts).value_satoshi))

RawIn(vins) ==
    AccumulateVins(vins, <<>>)

RawOut(vouts) ==
    AccumulateVouts(vouts, <<>>)

(***************************************************************************)
(* The netting pass: lines 139-151.  One iteration of the for loop for     *)
(* address a, on the pair of dicts.                                        *)
(***************************************************************************)
NetStepKeepsBoth(m, a) ==
    LET i == DictGet(m.in, a)
        o == IF DictHas(m.out, a) THEN DictGet(m.out, a) ELSE 0
    IN  IF i = 0 THEN m
        ELSE IF DictHas(m.out, a) /\ o # 0
             THEN IF i > o THEN [in |-> DictSet(m.in, a, i - o), out |-> m.out]
                  ELSE IF i < o THEN [in |-> m.in, out |-> DictSet(m.out, a, o - i)]
                  ELSE [in |-> DictSet(m.in, a, 0), out |-> DictSet(m.out, a, 0)]
             ELSE m

\* a netting step that would clear the outbound amount and leave the inbound
\* amount as it is
NetStepOutboundOnly(m, a) ==
    LET i == DictGet(m.in, a)
        o == IF DictHas(m.out, a) THEN DictGet(m.out, a) ELSE 0
    IN  IF i = 0 THEN m
        ELSE IF DictHas(m.out, a) /\ o # 0
             THEN [in |-> m.in, out |-> DictSet(m.out, a, 0)]
             ELSE m

NetStep(m, a) ==
    LET i == DictGet(m.in, a)
        o == IF DictHas(m.out, a) THEN DictGet(m.out, a) ELSE 0
    IN  IF i = 0 THEN m
        ELSE IF DictHas(m.out, a) /\ o # 0
             THEN IF i > o THEN [in |-> DictSet(m.in, a, i - o), out |-> DictSet(m.out, a, 0)]
                  ELSE IF i < o THEN [in |-> DictSet(m.in, a, 0), out |-> DictSet(m.out, a, o - i)]
                  ELSE [in |-> DictSet(m.in, a, 0), out |-> DictSet(m.out, a, 0)]
             ELSE m

\* for address in in_amount_by_address.keys(): ...   (k-th key onwards)
RECURSIVE NetLoop(_, _)
NetLoop(m, k) ==
    IF k > Len(m.in) THEN m
    ELSE NetLoop(NetStep(m, m.in[k].address), k + 1)

Netted(vins, vouts) ==
    NetLoop([in |-> RawIn(vins), out |-> RawOut(vouts)], 1)

(***************************************************************************)
(* Python-side preparation of one batch.                                   *)
(***************************************************************************)
\* a total taken from the first entry only
SumAmountsFirst(d) ==
    IF d = <<>> THEN 0 ELSE Head(d).amount

RECURSIVE SumAmounts(_)
SumAmounts(d) ==
    IF d = <<>> THEN 0 ELSE Head(d).amount + SumAmounts(Tail(d))

\* the dicts with every entry kept
KeepAll(d) ==
    d

\* [address for address in d.keys() if d[address] != 0], with the amounts
NonZero(d) ==
    SelectSeq(d, LAMBDA e : e.amount # 0)

FlowRecords(d, tx_id, dir) ==
    [k \in 1..Len(d) |-> [dir |-> dir, address |-> d[k].address,
                          amount |-> d[k].amount, tx_id |-> tx_id]]

\* lines 153-169 for one tx, m the netted dicts
EmitRecords(m, tx) ==
    LET ia == NonZero(m.in)
        oa == NonZero(m.out)
    IN  [txn |-> [tx_id |-> tx.tx_id,
                  in_total_amount |-> SumAmounts(ia),
                  out_total_amount |-> SumAmounts(oa),
                  timestamp |-> tx.timestamp,
                  block_height |-> tx.block_height,
                  is_coinbase |-> tx.is_coinbase],
         inputs |-> FlowRecords(ia, tx.tx_id, "in"),
         outputs |-> FlowRecords(oa, tx.tx_id, "out")]

\* netted writer: lines 119-171 for one tx
NettedRecords(tx) ==
    EmitRecords(Netted(tx.vins, tx.vouts), tx)

NoRecords ==
    [txn |-> <<>>, inputs |-> <<>>, outputs |-> <<>>]

\* the transaction of the netting machine
NetTx(vins, vouts) ==
    [tx_id |-> "t", vins |-> vins, vouts |-> vouts, timestamp |-> 0, block_height |-> 0,
     is_coinbase |-> (vins # <<>> /\ \A k \in 1..Len(vins) : vins[k].tx_id = 0)]

(***************************************************************************)
(* SpecNet: the netting pass on every transaction shape within the bounds. *)
(***************************************************************************)
MaxVins == 2
MaxVouts == 2
MaxAmount == 1

\* the prior transactions and the addresses the transactions under the
\* netting pass refer to
NetTxIds == {0, 1, 2}

NetAddresses == {"A", "B"}

SeqsUpTo(S, n) ==
    UNION {[1..k -> S] : k \in 0..n}

VinSet ==
    [tx_id : NetTxIds, vout_id : 0..MaxAmount]

VoutSet ==
    [address : NetAddresses, value_satoshi : 0..MaxAmount]

NetInit ==
    /\ net_pc = "raw"
    /\ net_vins \in SeqsUpTo({v \in VinSet : v.tx_id # 0 \/ v.vout_id = 0}, MaxVins)
    /\ net_vouts \in SeqsUpTo(VoutSet, MaxVouts)
    /\ in_amount_by_address = RawIn(net_vins)
    /\ out_amount_by_address = RawOut(net_vouts)
    /\ net_resolved = ResolveCalls(net_vins)
    /\ net_records = NoRecords

NetIdle ==
    /\ net_pc = "off"
    /\ net_vins = <<>>
    /\ net_vouts = <<>>
    /\ in_amount_by_address = <<>>
    /\ out_amount_by_address = <<>>
    /\ net_resolved = <<>>
    /\ net_records = NoRecords

NetPass ==
    /\ net_pc = "raw"
    /\ LET m == NetLoop([in |-> in_amount_by_address, out |-> out_amount_by_address], 1)
       IN  /\ in_amount_by_address' = m.in
           /\ out_amount_by_address' = m.out
    /\ net_pc' = "netted"
    /\ UNCHANGED <<net_vins, net_vouts, net_resolved, net_records>>
    /\ UNCHANGED <<part_vars, w_vars, ix_vars, idx_vars, sync_vars, val_vars>>

\* lines 153-169: the nonzero entries become the records of the transaction
NetEmit ==
    /\ net_pc = "netted"
    /\ net_records' = EmitRecords([in |-> in_amount_by_address, out |-> out_amount_by_address],
                                  NetTx(net_vins, net_vouts))
    /\ net_pc' = "emitted"
    /\ UNCHANGED <<net_vins, net_vouts, in_amount_by_address, out_amount_by_address, net_resolved>>
    /\ UNCHANGED <<part_vars, w_vars, ix_vars, idx_vars, sync_vars, val_vars>>


(***************************************************************************)
(* Sub-range computation of __main__: lines 218-233.  Python's floor(a/b)  *)
(* and a % b round towards minus infinity, as \div and % do.               *)
(***************************************************************************)
thread_depth(start, last, n) ==
    (last - start) \div n

restHeight(start, last, n) ==
    (last - start) % n

\* a split in which every thread would start at the start height
SubRangeStartShared(i, start, last, n) ==
    start

\* line 230: start = start_height + i * thread_depth
SubRangeStart(i, start, last, n) ==
    start + i * thread_depth(start, last, n)

SubRangeLastNoRemainder(i, start, last, n) ==
    start + (i + 1) * thread_depth(start, last, n) - 1

SubRangeLast(i, start, last, n) ==
    IF i = n - 1
    THEN start + (i + 1) * thread_depth(start, last, n) + restHeight(start, last, n)
    ELSE start + (i + 1) * thread_depth(start, last, n) - 1

\* the (start, last) pairs of threads 0 .. n-1, as a sequence indexed 1 .. n
SubRanges(start, last, n) ==
    [k \in 1..n |-> [start |-> SubRangeStart(k - 1, start, last, n),
                     last  |-> SubRangeLast(k - 1, start, last, n)]]

(***************************************************************************)
(* SpecPart: the split for every (start_height, last_height, num_threads)  *)
(* within the bounds.                                                      *)
(***************************************************************************)
MaxPartHeight == 8
MaxPartThreads == 3

PartInit ==
    /\ part_pc = "config"
    /\ part_start \in 0..MaxPartHeight
    /\ part_last \in 0..MaxPartHeight
    /\ part_threads \in 1..MaxPartThreads
    /\ part_ranges = <<>>

PartIdle ==
    /\ part_pc = "off"
    /\ part_start = 0
    /\ part_last = 0
    /\ part_threads = 1
    /\ part_ranges = <<>>

PartSplit ==
    /\ part_pc = "config"
    /\ part_ranges' = SubRanges(part_start, part_last, part_threads)
    /\ part_pc' = "split"
    /\ UNCHANGED <<part_start, part_last, part_threads>>
    /\ UNCHANGED <<net_vars, w_vars, ix_vars, idx_vars, sync_vars, val_vars>>

(***************************************************************************)
(* The graph store and the Cypher statements of the writers.               *)
(* Nodes and edges are kept as sequences in creation order, so that a      *)
(* duplicate node would show.                                              *)
(***************************************************************************)
EmptyStore ==
    [txs |-> <<>>, addrs |-> <<>>, edges |-> <<>>]

HasTransaction(store, tx_id) ==
    \E k \in 1..Len(store.txs) : store.txs[k].tx_id = tx_id

HasAddress(store, a) ==
    \E k \in 1..Len(store.addrs) : store.addrs[k] = a

\* a MERGE that would also set the attributes of a node it matched
MergeTransactionSet(store, tx) ==
    IF HasTransaction(store, tx.tx_id)
    THEN [store EXCEPT !.txs =
             [k \in 1..Len(store.txs) |->
                 IF store.txs[k].tx_id = tx.tx_id
                 THEN [tx_id |-> tx.tx_id, props |-> {tx}] ELSE store.txs[k]]]
    ELSE [store EXCEPT !.txs = Append(@, [tx_id |-> tx.tx_id, props |-> {tx}])]

\* MERGE (t:Transaction {tx_id: tx.tx_id}) ON CREATE SET ...
MergeTransactionOnCreate(store, tx) ==
    IF HasTransaction(store, tx.tx_id) THEN store
    ELSE [store EXCEPT !.txs = Append(@, [tx_id |-> tx.tx_id, props |-> {tx}])]

\* MERGE (t:Transaction {tx_id: x.tx_id}), no ON CREATE clause
MergeTransaction(store, tx_id) ==
    IF HasTransaction(store, tx_id) THEN store
    ELSE [store EXCEPT !.txs = Append(@, [tx_id |-> tx_id, props |-> {}])]

\* MERGE (a:Address {address: x.address})
MergeAddress(store, a) ==
    IF HasAddress(store, a) THEN store
    ELSE [store EXCEPT !.addrs = Append(@, a)]

\* a statement that would MERGE the edge: an edge that is there is not
\* created again
CreateEdgeIfAbsent(store, e) ==
    IF \E k \in 1..Len(store.edges) : store.edges[k] = e THEN store
    ELSE [store EXCEPT !.edges = Append(@, e)]

\* CREATE (..)-[:SENT {..}]->(..)
CreateEdge(store, e) ==
    [store EXCEPT !.edges = Append(@, e)]

\* UNWIND $transactions AS tx MERGE ... ON CREATE SET ...
RECURSIVE RunTransactions(_, _)
RunTransactions(store, txns) ==
    IF txns = <<>> THEN store
    ELSE RunTransactions(MergeTransactionOnCreate(store, Head(txns)), Tail(txns))

\* UNWIND $rows AS row MERGE (a:Address) MERGE (t:Transaction) CREATE edge
RECURSIVE RunEdges(_, _)
RunEdges(store, rows) ==
    IF rows = <<>> THEN store
    ELSE RunEdges(CreateEdge(MergeTransaction(MergeAddress(store, Head(rows).address),
                                              Head(rows).tx_id),
                             Head(rows)),
                  Tail(rows))

(***************************************************************************)
(* The progress tracker: get_latest_block_number, get_min_block_number.    *)
(***************************************************************************)
Max(S) ==
    CHOOSE x \in S : \A y \in S : y <= x

Min(S) ==
    CHOOSE x \in S : \A y \in S : x <= y

\* the block_height values MATCH (t:Transaction) finds in the store
StoreHeights(store) ==
    {r.block_height : r \in UNION {store.txs[k].props : k \in 1..Len(store.txs)}}

\* MATCH (t:Transaction) RETURN MAX(t.block_height); 0 when there is none
get_latest_block_number(heights) ==
    IF heights = {} THEN 0 ELSE Max(heights)

\* a minimum query that would aggregate with MAX
get_min_block_number_as_max(heights) ==
    IF heights = {} THEN 0 ELSE Max(heights)

\* MATCH (t:Transaction) RETURN MIN(t.block_height); 0 when there is none
get_min_block_number(heights) ==
    IF heights = {} THEN 0 ELSE Min(heights)

NoProgress ==
    [latest |-> -1, min |-> -1]

(***************************************************************************)
(* Python-side preparation of one batch (continued).                       *)
(***************************************************************************)
\* simple writer: lines 87-111 for one tx
SimpleRecords(tx) ==
    [txn |-> [tx_id |-> tx.tx_id,
              timestamp |-> tx.timestamp,
              block_height |-> tx.block_height,
              is_coinbase |-> tx.is_coinbase],
     inputs |-> <<>>,
     outputs |-> [k \in 1..Len(tx.vouts) |->
                    [dir |-> "out", address |-> tx.vouts[k].address,
                     amount |-> tx.vouts[k].value_satoshi, tx_id |-> tx.tx_id,
                     is_coinbase |-> tx.is_coinbase /\ k = 1]]]

\* the unbatched simple writer create_graph_focused_on_money_flow2, lines
\* 143-181 for one tx: the Transaction node, for a coinbase transaction an
\* edge for vouts[0] with is_coinbase true, then an edge for every vout with
\* is_coinbase false
Flow2Records(tx) ==
    [txn |-> [tx_id |-> tx.tx_id,
              timestamp |-> tx.timestamp,
              block_height |-> tx.block_height,
              is_coinbase |-> tx.is_coinbase],
     inputs |-> <<>>,
     outputs |-> (IF tx.is_coinbase
                  THEN <<[dir |-> "out", address |-> tx.vouts[1].address,
                          amount |-> tx.vouts[1].value_satoshi, tx_id |-> tx.tx_id,
                          is_coinbase |-> TRUE]>>
                  ELSE <<>>)
                 \o [k \in 1..Len(tx.vouts) |->
                       [dir |-> "out", address |-> tx.vouts[k].address,
                        amount |-> tx.vouts[k].value_satoshi, tx_id |-> tx.tx_id,
                        is_coinbase |-> FALSE]]]

RECURSIVE BatchRecords(_, _)
BatchRecords(variant, txs) ==
    IF txs = <<>> THEN [txns |-> <<>>, inputs |-> <<>>, outputs |-> <<>>]
    ELSE LET r    == IF variant = "v2" THEN NettedRecords(Head(txs))
                     ELSE IF variant = "v1" THEN SimpleRecords(Head(txs))
                     ELSE Flow2Records(Head(txs))
             rest == BatchRecords(variant, Tail(txs))
         IN  [txns    |-> <<r.txn>> \o rest.txns,
              inputs  |-> r.inputs \o rest.inputs,
              outputs |-> r.outputs \o rest.outputs]

\* a slice that would hold the first transaction of the batch only
SliceFirstOnly(txs, i, batch_size) ==
    SubSeq(txs, i + 1, i + 1)

\* transactions[i : i + batch_size], i a 0-based offset
Slice(txs, i, batch_size) ==
    SubSeq(txs, i + 1, IF i + batch_size < Len(txs) THEN i + batch_size ELSE Len(txs))

\* the batch calls the node adapter iff some vin is not the coinbase sentinel
NeedsResolution(txs) ==
    \E k \in 1..Len(txs) : \E j \in 1..Len(txs[k].vins) : txs[k].vins[j].tx_id # 0

(***************************************************************************)
(* The blocks the writer is called with: the transactions of the scenario  *)
(* (a coinbase, a transfer A -> B, a round trip of C, a payment with       *)
(* change), in block order, at most MaxBlockTxs of them, at height 2; and  *)
(* before it on the chain, at height 1, a block of one coinbase            *)
(* transaction.  Transaction ids are unique on the chain.                  *)
(***************************************************************************)
MaxBlockTxs == 3
MaxBatchSize == 2
MaxCalls == 2

Coinbase == [tx_id |-> 0, vout_id |-> 0]

Catalogue(h) ==
    << [tx_id |-> "t1", vins |-> <<Coinbase>>,
        vouts |-> <<[address |-> "M", value_satoshi |-> 5]>>,
        timestamp |-> 100 + h, block_height |-> h, is_coinbase |-> TRUE],
       [tx_id |-> "t2", vins |-> <<[tx_id |-> 1, vout_id |-> 2]>>,
        vouts |-> <<[address |-> "B", value_satoshi |-> 2]>>,
        timestamp |-> 100 + h, block_height |-> h, is_coinbase |-> FALSE],
       [tx_id |-> "t3", vins |-> <<[tx_id |-> 3, vout_id |-> 2]>>,
        vouts |-> <<[address |-> "C", value_satoshi |-> 2]>>,
        timestamp |-> 100 + h, block_height |-> h, is_coinbase |-> FALSE],
       [tx_id |-> "t4", vins |-> <<[tx_id |-> 1, vout_id |-> 2]>>,
        vouts |-> <<[address |-> "B", value_satoshi |-> 1],
                    [address |-> "A", value_satoshi |-> 1]>>,
        timestamp |-> 100 + h, block_height |-> h, is_coinbase |-> FALSE] >>

\* the strictly increasing index sequences into the catalogue
IndexSeqs ==
    {q \in SeqsUpTo(1..Len(Catalogue(0)), MaxBlockTxs) :
        \A k \in 1..(Len(q) - 1) : q[k] < q[k + 1]}

Blocks(h) ==
    {[k \in 1..Len(q) |-> Catalogue(h)[q[k]]] : q \in IndexSeqs}

EarlierBlock(h) ==
    << [tx_id |-> "t0", vins |-> <<Coinbase>>,
        vouts |-> <<[address |-> "M", value_satoshi |-> 5]>>,
        timestamp |-> 100 + h, block_height |-> h, is_coinbase |-> TRUE] >>

\* the same block handed to the writer again with other attribute values:
\* a later timestamp and larger output amounts
Reissued(block) ==
    [k \in 1..Len(block) |->
        [block[k] EXCEPT !.timestamp = @ + 50,
                         !.vouts = [j \in 1..Len(block[k].vouts) |->
                                       [block[k].vouts[j] EXCEPT !.value_satoshi = @ + 1]]]]

(***************************************************************************)
(* create_graph_focused_on_money_flow as a state machine.                  *)
(*   idle -> loop -> prepare -> run_txns -> run_inputs -> run_outputs      *)
(*        -> loop ... -> commit -> finally -> idle                         *)
(*   any of prepare / run_* / commit -> except -> finally -> idle          *)
(***************************************************************************)
\* transaction.run writes inside the open transaction only: the committed
\* store is what it was.
StoreAfterRunAutocommit(committed, pending) ==
    pending

StoreAfterRun(committed, pending) ==
    committed

\* a finally clause that would leave the transaction as it finds it
ClosedAfterFinallyNoClose(closed) ==
    closed

\* lines 215-217: if transaction.closed() is False: transaction.close()
\* (v1 create_graph_focused_on_money_flow2, lines 191-192: session.close())
ClosedAfterFinally(closed) ==
    IF closed = FALSE THEN TRUE ELSE closed

WInit ==
    /\ w_pc = "idle"
    /\ w_variant \in {"v1", "v2", "flow2"}
    /\ w_chain \in {<<EarlierBlock(1), b, Reissued(b)>> : b \in Blocks(2)}
    /\ w_block = <<>>
    /\ w_batch_size \in (IF w_variant = "flow2" THEN {1} ELSE 1..MaxBatchSize)
    /\ w_i = 0
    /\ w_batch = BatchRecords("v1", <<>>)
    /\ w_store = EmptyStore
    /\ w_pending = EmptyStore
    /\ w_closed = TRUE
    /\ w_ret = "none"
    /\ w_pre = EmptyStore
    /\ w_fail_at = "none"
    /\ w_batches_run = 0
    /\ w_commits = 0
    /\ w_calls = 0
    /\ w_progress = NoProgress

WIdle ==
    /\ w_pc = "off"
    /\ w_variant = "v2"
    /\ w_chain = <<>>
    /\ w_block = <<>>
    /\ w_batch_size = 1
    /\ w_i = 0
    /\ w_batch = BatchRecords("v1", <<>>)
    /\ w_store = EmptyStore
    /\ w_pending = EmptyStore
    /\ w_closed = TRUE
    /\ w_ret = "none"
    /\ w_pre = EmptyStore
    /\ w_fail_at = "none"
    /\ w_batches_run = 0
    /\ w_commits = 0
    /\ w_calls = 0
    /\ w_progress = NoProgress

\* lines 103-110: session, begin_transaction, enter try
WBegin(block) ==
    /\ w_pc = "idle"
    /\ w_calls < MaxCalls
    /\ w_block' = block
    /\ w_i' = 0
    /\ w_batch' = BatchRecords("v1", <<>>)
    /\ w_pending' = w_store
    /\ w_pre' = w_store
    /\ w_closed' = FALSE
    /\ w_ret' = "none"
    /\ w_fail_at' = "none"
    /\ w_batches_run' = 0
    /\ w_commits' = 0
    /\ w_calls' = w_calls + 1
    /\ w_pc' = "loop"
    /\ UNCHANGED <<w_progress, w_variant, w_chain, w_batch_size, w_store>>
    /\ UNCHANGED <<net_vars, part_vars, ix_vars, idx_vars, sync_vars, val_vars>>

\* line 111: for i in range(0, len(transactions), batch_size)
WLoop ==
    /\ w_pc = "loop"
    /\ w_pc' = IF w_i < Len(w_block) THEN "prepare" ELSE "commit"
    /\ UNCHANGED <<w_progress, w_variant, w_chain, w_block, w_batch_size, w_i, w_batch, w_store, w_pending,
                   w_closed, w_ret, w_pre, w_fail_at, w_batches_run, w_commits, w_calls>>
    /\ UNCHANGED <<net_vars, part_vars, ix_vars, idx_vars, sync_vars, val_vars>>

\* lines 112-171: the batch's records (input origins resolved)
WPrepare ==
    /\ w_pc = "prepare"
    /\ w_batch' = BatchRecords(w_variant, Slice(w_block, w_i, w_batch_size))
    /\ w_pc' = "run_txns"
    /\ UNCHANGED <<w_progress, w_variant, w_chain, w_block, w_batch_size, w_i, w_store, w_pending,
                   w_closed, w_ret, w_pre, w_fail_at, w_batches_run, w_commits, w_calls>>
    /\ UNCHANGED <<net_vars, part_vars, ix_vars, idx_vars, sync_vars, val_vars>>

\* lines 173-185 (v1: 79-96)
WRunTxns ==
    /\ w_pc = "run_txns"
    /\ w_pending' = RunTransactions(w_pending, w_batch.txns)
    /\ w_store' = StoreAfterRun(w_store, w_pending')
    /\ w_pc' = IF w_variant = "v2" THEN "run_inputs" ELSE "run_outputs"
    /\ UNCHANGED <<w_progress, w_variant, w_chain, w_block, w_batch_size, w_i, w_batch,
                   w_closed, w_ret, w_pre, w_fail_at, w_batches_run, w_commits, w_calls>>
    /\ UNCHANGED <<net_vars, part_vars, ix_vars, idx_vars, sync_vars, val_vars>>

\* lines 187-195
WRunInputs ==
    /\ w_pc = "run_inputs"
    /\ w_pending' = RunEdges(w_pending, w_batch.inputs)
    /\ w_store' = StoreAfterRun(w_store, w_pending')
    /\ w_pc' = "run_outputs"
    /\ UNCHANGED <<w_progress, w_variant, w_chain, w_block, w_batch_size, w_i, w_batch,
                   w_closed, w_ret, w_pre, w_fail_at, w_batches_run, w_commits, w_calls>>
    /\ UNCHANGED <<net_vars, part_vars, ix_vars, idx_vars, sync_vars, val_vars>>

\* lines 197-205 (v1: 113-121), then the next i
WRunOutputs ==
    /\ w_pc = "run_outputs"
    /\ w_pending' = RunEdges(w_pending, w_batch.outputs)
    /\ w_store' = StoreAfterRun(w_store, w_pending')
    /\ w_i' = w_i + w_batch_size
    /\ w_batches_run' = w_batches_run + 1
    /\ w_pc' = "loop"
    /\ UNCHANGED <<w_progress, w_variant, w_chain, w_block, w_batch_size, w_batch,
                   w_closed, w_ret, w_pre, w_fail_at, w_commits, w_calls>>
    /\ UNCHANGED <<net_vars, part_vars, ix_vars, idx_vars, sync_vars, val_vars>>

\* lines 207-208: commit, return True (the finally clause still runs)
WCommit ==
    /\ w_pc = "commit"
    /\ w_store' = w_pending
    /\ w_closed' = TRUE
    /\ w_commits' = w_commits + 1
    /\ w_ret' = "True"
    /\ w_pc' = "finally"
    /\ UNCHANGED <<w_progress, w_variant, w_chain, w_block, w_batch_size, w_i, w_batch, w_pending,
                   w_pre, w_fail_at, w_batches_run, w_calls>>
    /\ UNCHANGED <<net_vars, part_vars, ix_vars, idx_vars, sync_vars, val_vars>>

\* an exception inside the try block: origin resolution (netted writer, a
\* batch with a non-coinbase vin), a store statement, or the commit
WRaise ==
    /\ \/ w_pc = "prepare" /\ w_variant = "v2"
                           /\ NeedsResolution(Slice(w_block, w_i, w_batch_size))
       \/ w_pc \in {"run_txns", "run_inputs", "run_outputs", "commit"}
    /\ w_fail_at' = w_pc
    /\ w_pc' = "except"
    /\ UNCHANGED <<w_progress, w_variant, w_chain, w_block, w_batch_size, w_i, w_batch, w_store, w_pending,
                   w_closed, w_ret, w_pre, w_batches_run, w_commits, w_calls>>
    /\ UNCHANGED <<net_vars, part_vars, ix_vars, idx_vars, sync_vars, val_vars>>

\* lines 210-213: rollback, return False
WRollback ==
    /\ w_pc = "except"
    /\ w_pending' = w_store
    /\ w_closed' = TRUE
    /\ w_ret' = "False"
    /\ w_pc' = "finally"
    /\ UNCHANGED <<w_progress, w_variant, w_chain, w_block, w_batch_size, w_i, w_batch, w_store,
                   w_pre, w_fail_at, w_batches_run, w_commits, w_calls>>
    /\ UNCHANGED <<net_vars, part_vars, ix_vars, idx_vars, sync_vars, val_vars>>

\* line 211 raises: the exception leaves the call through the finally clause
WRollbackRaises ==
    /\ w_pc = "except"
    /\ w_ret' = "raised"
    /\ w_pc' = "finally"
    /\ UNCHANGED <<w_progress, w_variant, w_chain, w_block, w_batch_size, w_i, w_batch, w_store, w_pending,
                   w_closed, w_pre, w_fail_at, w_batches_run, w_commits, w_calls>>
    /\ UNCHANGED <<net_vars, part_vars, ix_vars, idx_vars, sync_vars, val_vars>>

\* lines 215-217: close the transaction if it is still open (an open
\* transaction that is closed is rolled back)
WFinally ==
    /\ w_pc = "finally"
    /\ w_closed' = ClosedAfterFinally(w_closed)
    /\ w_pending' = w_store
    /\ w_pc' = "idle"
    /\ UNCHANGED <<w_progress, w_variant, w_chain, w_block, w_batch_size, w_i, w_batch, w_store,
                   w_ret, w_pre, w_fail_at, w_batches_run, w_commits, w_calls>>
    /\ UNCHANGED <<net_vars, part_vars, ix_vars, idx_vars, sync_vars, val_vars>>

\* get_latest_block_number() and get_min_block_number(), between writer calls
ProgressQuery ==
    /\ w_pc = "idle"
    /\ w_progress' = [latest |-> get_latest_block_number(StoreHeights(w_store)),
                      min |-> get_min_block_number(StoreHeights(w_store))]
    /\ UNCHANGED <<w_pc, w_variant, w_chain, w_block, w_batch_size, w_i, w_batch, w_store,
                   w_pending, w_closed, w_ret, w_pre, w_fail_at, w_batches_run, w_commits,
                   w_calls>>
    /\ UNCHANGED <<net_vars, part_vars, ix_vars, idx_vars, sync_vars, val_vars>>

WNext ==
    \/ \E k \in 1..Len(w_chain) : WBegin(w_chain[k])
    \/ ProgressQuery
    \/ WLoop
    \/ WPrepare
    \/ WRunTxns
    \/ WRunInputs
    \/ WRunOutputs
    \/ WCommit
    \/ WRaise
    \/ WRollback
    \/ WRollbackRaises
    \/ WFinally

(***************************************************************************)
(* The indexer process (ethereum/funds_flow/indexer.py).                   *)
(* Thread 0 is the main thread, which runs index_blocks (the head          *)
(* follower) inside the retry loop of __main__; threads 1 .. num_threads   *)
(* run index_blocks_by_last_height (thread_index = t - 1).                 *)
(***************************************************************************)
skip_blocks == 6
confirmations == 6
threshold == 500

MaxTip == 28
TipBackfill == 27
TipHead == 13
MaxWrites == 2

NoOverride == -1

\* the chain of the model: number of transactions of the block at height
\* h (none, exactly the throttle threshold, one more than the threshold)
NumTx(h) ==
    IF h % 3 = 0 THEN 0 ELSE IF h % 3 = 1 THEN threshold ELSE threshold + 1

\* the runs of the model: two backfill threads over [1, 27] with the head
\* follower waiting behind them; one backfill thread over [1, 13] with the
\* chain growing far enough for the head follower to index; a restart on a
\* store that holds blocks, with a start override close to the tip and an
\* end override below it, the chain growing as before; a restart with an end override more than the confirmation depth
\* above the tip
Configs ==
    { [num_threads |-> 2, start_override |-> NoOverride, last_override |-> NoOverride,
       tip0 |-> TipBackfill, tip_max |-> TipBackfill, indexed0 |-> {}],
      [num_threads |-> 1, start_override |-> NoOverride, last_override |-> NoOverride,
       tip0 |-> TipHead, tip_max |-> MaxTip, indexed0 |-> {}],
      [num_threads |-> 1, start_override |-> TipHead - 1, last_override |-> 10,
       tip0 |-> TipHead + 1, tip_max |-> MaxTip, indexed0 |-> {1, 2, 4}],
      [num_threads |-> 1, start_override |-> NoOverride, last_override |-> TipHead + 8,
       tip0 |-> TipHead, tip_max |-> TipHead + 1, indexed0 |-> {6}] }

\* heights with a Transaction node in the graph store
Indexed ==
    cfg.indexed0 \cup {h \in DOMAIN written : written[h] > 0}

\* __main__ lines 202-208
MainStartHeight(c) ==
    IF c.start_override # NoOverride THEN c.start_override
    ELSE get_latest_block_number(c.indexed0) + 1

\* __main__ lines 210-216
MainLastHeight(c) ==
    IF c.last_override # NoOverride
    THEN IF c.tip0 > c.last_override THEN c.tip0 ELSE c.last_override
    ELSE c.tip0

\* the start of the head follower if it were read from the store or the
\* start override
HeadStartFromStore(c) ==
    MainStartHeight(c)

\* __main__ line 246: index_blocks(..., last_height + 1)
HeadStartHeight(c) ==
    MainLastHeight(c) + 1

Threads ==
    0..cfg.num_threads

Backfill ==
    1..cfg.num_threads

\* the state after __main__ has read its configuration (lines 189-219)
IxStart ==
    /\ shutdown_flag = FALSE
    /\ tip = cfg.tip0
    /\ pc = [t \in 0..cfg.num_threads |-> "loop"]
    /\ start_height = [t \in 0..cfg.num_threads |->
          IF t = 0 THEN HeadStartHeight(cfg)
          ELSE SubRangeStart(t - 1, MainStartHeight(cfg), MainLastHeight(cfg), cfg.num_threads)]
    /\ last_height = [t \in 0..cfg.num_threads |->
          IF t = 0 THEN MainLastHeight(cfg)
          ELSE SubRangeLast(t - 1, MainStartHeight(cfg), MainLastHeight(cfg), cfg.num_threads)]
    /\ current_block_height = [t \in 0..cfg.num_threads |-> 0]
    /\ block_height = start_height
    /\ written = [h \in 0..MaxTip |-> 0]
    /\ driver_closed = FALSE
    /\ req = [t \in 0..cfg.num_threads |-> [h |-> -1, failed |-> FALSE]]
    /\ hist = [failure |-> FALSE,
               writers |-> [h \in 0..MaxTip |-> {}],
               late |-> [t \in 0..cfg.num_threads |-> 0]]

IxInit ==
    /\ cfg \in Configs
    /\ IxStart

\* the runs of SpecStop: the head follower indexing behind a growing chain
\* while the one backfill thread, whose sub-range [13, 13] is too close to
\* its end, waits; and the restart with an end override above the tip, in
\* which the backfill thread indexes and the head follower waits
StopConfigs ==
    { [num_threads |-> 1, start_override |-> TipHead, last_override |-> NoOverride,
       tip0 |-> TipHead, tip_max |-> MaxTip, indexed0 |-> {}],
      [num_threads |-> 1, start_override |-> NoOverride, last_override |-> TipHead + 8,
       tip0 |-> TipHead, tip_max |-> TipHead + 1, indexed0 |-> {6}] }

IxInitStop ==
    /\ cfg \in StopConfigs
    /\ IxStart

IxIdle ==
    /\ cfg = [num_threads |-> 0, tip_max |-> 0]
    /\ shutdown_flag = FALSE
    /\ tip = 0
    /\ pc = <<>>
    /\ start_height = <<>>
    /\ last_height = <<>>
    /\ current_block_height = <<>>
    /\ block_height = <<>>
    /\ written = <<>>
    /\ driver_closed = FALSE
    /\ req = <<>>
    /\ hist = [failure |-> FALSE, writers |-> <<>>, late |-> <<>>]

\* line 28 (head follower) and line 107 (backfill thread)
CurrentBlockHeight(t) ==
    IF t = 0 THEN tip - confirmations ELSE last_height[t] - confirmations

\* the inner while condition, lines 42 and 121
InnerCondNoMargin(bh, current) ==
    bh <= current + skip_blocks

InnerCond(bh, current) ==
    bh <= current - skip_blocks

\* a cursor that would move on whatever the write returned
NextCursorAlways(bh, success) ==
    bh + 1

\* lines 80-82 / 158-160: the cursor after a write that returned success
NextCursor(bh, success) ==
    IF success THEN bh + 1 ELSE bh

\* an exception that leaves the thread's function: a backfill thread ends,
\* the main thread lands in the except clause of __main__
Escaped(t) ==
    IF t = 0 THEN "except" ELSE "dead"

\* signal handler, lines 16-21
Shutdown ==
    /\ ~shutdown_flag
    /\ shutdown_flag' = TRUE
    /\ UNCHANGED <<tip, pc, start_height, last_height, current_block_height,
                   block_height, written, driver_closed, cfg, req, hist>>
    /\ UNCHANGED <<net_vars, part_vars, w_vars, idx_vars, sync_vars, val_vars>>

\* the chain grows by one block, up to the height the run ends at
AdvanceTip ==
    /\ tip < cfg.tip_max
    /\ tip' = tip + 1
    /\ UNCHANGED <<shutdown_flag, pc, start_height, last_height, current_block_height,
                   block_height, written, driver_closed, cfg, req, hist>>
    /\ UNCHANGED <<net_vars, part_vars, w_vars, idx_vars, sync_vars, val_vars>>

\* an outer loop that would not read the flag
OuterCondAlways(flag) ==
    TRUE

\* lines 27 / 106: while not shutdown_flag
OuterCond(flag) ==
    ~flag

\* lines 27-41 / 106-120: the outer while test, the two waits, block_height = start_height
Loop(t) ==
    /\ pc[t] = "loop"
    /\ IF ~OuterCond(shutdown_flag)
       THEN /\ pc' = [pc EXCEPT ![t] = IF t = 0 THEN "returned" ELSE "done"]
            /\ UNCHANGED <<current_block_height, block_height>>
       ELSE LET c == CurrentBlockHeight(t)
            IN  /\ current_block_height' = [current_block_height EXCEPT ![t] = c]
                /\ IF c - skip_blocks < 0 \/ start_height[t] > c
                   THEN /\ pc' = [pc EXCEPT ![t] = "sleep_wait"]
                        /\ UNCHANGED block_height
                   ELSE /\ pc' = [pc EXCEPT ![t] = "inner"]
                        /\ block_height' = [block_height EXCEPT ![t] = start_height[t]]
    /\ UNCHANGED <<shutdown_flag, tip, start_height, last_height, written,
                   driver_closed, cfg, req, hist>>
    /\ UNCHANGED <<net_vars, part_vars, w_vars, idx_vars, sync_vars, val_vars>>

\* time.sleep returns: lines 31-32, 38-39 (back to the outer test), 89, 93
Wake(t) ==
    /\ pc[t] \in {"sleep_wait", "sleep_throttle", "sleep_fail"}
    /\ pc' = [pc EXCEPT ![t] = IF pc[t] = "sleep_wait" THEN "loop" ELSE "check"]
    /\ UNCHANGED <<shutdown_flag, tip, start_height, last_height, current_block_height,
                   block_height, written, driver_closed, cfg, req, hist>>
    /\ UNCHANGED <<net_vars, part_vars, w_vars, idx_vars, sync_vars, val_vars>>

\* lines 42 / 121: the inner while test is false
InnerExit(t) ==
    /\ pc[t] = "inner"
    /\ ~InnerCond(block_height[t], current_block_height[t])
    /\ pc' = [pc EXCEPT ![t] = "loop"]
    /\ UNCHANGED <<shutdown_flag, tip, start_height, last_height, current_block_height,
                   block_height, written, driver_closed, cfg, req, hist>>
    /\ UNCHANGED <<net_vars, part_vars, w_vars, idx_vars, sync_vars, val_vars>>

MaxLate == 2

\* history: thread t begins a write attempt of height h (lines 50-51 /
\* 128-129); the attempts begun with the shutdown flag set are counted
BeginWrite(t, h) ==
    [hist EXCEPT !.writers[h] = @ \cup {t},
                 !.late[t] = IF shutdown_flag /\ @ < MaxLate THEN @ + 1 ELSE @]

Requested(t, h) ==
    [req EXCEPT ![t] = [h |-> h, failed |-> IF req[t].h = h THEN req[t].failed ELSE FALSE]]

\* lines 43-47 / 122-126: get_block_by_height(block_height); an empty block is skipped
Fetch(t) ==
    /\ pc[t] = "inner"
    /\ InnerCond(block_height[t], current_block_height[t])
    /\ req' = Requested(t, block_height[t])
    /\ IF NumTx(block_height[t]) = 0
       THEN /\ block_height' = [block_height EXCEPT ![t] = @ + 1]
            /\ UNCHANGED pc
            /\ UNCHANGED hist
       ELSE /\ pc' = [pc EXCEPT ![t] = "write"]
            /\ hist' = BeginWrite(t, block_height[t])
            /\ UNCHANGED block_height
    /\ UNCHANGED <<shutdown_flag, tip, start_height, last_height, current_block_height,
                   written, driver_closed, cfg>>
    /\ UNCHANGED <<net_vars, part_vars, w_vars, idx_vars, sync_vars, val_vars>>

\* line 43 / 122 raises
FetchRaises(t) ==
    /\ pc[t] = "inner"
    /\ InnerCond(block_height[t], current_block_height[t])
    /\ req' = Requested(t, block_height[t])
    /\ pc' = [pc EXCEPT ![t] = Escaped(t)]
    /\ hist' = [hist EXCEPT !.failure = TRUE]
    /\ UNCHANGED <<shutdown_flag, tip, start_height, last_height, current_block_height,
                   block_height, written, driver_closed, cfg>>
    /\ UNCHANGED <<net_vars, part_vars, w_vars, idx_vars, sync_vars, val_vars>>

\* the writer the indexer calls: it commits the whole block and reports
\* success, or commits nothing and reports failure
create_graph_focused_on_funds_flow(w, h, success) ==
    IF success THEN [w EXCEPT ![h] = IF @ < MaxWrites THEN @ + 1 ELSE @] ELSE w

\* lines 50-51 / 128-129: the graph is built and written
Write(t, success) ==
    /\ pc[t] = "write"
    /\ written' = create_graph_focused_on_funds_flow(written, block_height[t], success)
    /\ req' = [req EXCEPT ![t].failed = ~success]
    /\ hist' = IF success THEN hist ELSE [hist EXCEPT !.failure = TRUE]
    /\ pc' = [pc EXCEPT ![t] = IF success THEN "post_ok" ELSE "post_failed"]
    /\ UNCHANGED <<shutdown_flag, tip, start_height, last_height, current_block_height,
                   block_height, driver_closed, cfg>>
    /\ UNCHANGED <<net_vars, part_vars, w_vars, idx_vars, sync_vars, val_vars>>

WriteOk(t) ==
    Write(t, TRUE)

WriteFailed(t) ==
    Write(t, FALSE)

\* line 50 / 128 or the writer call raises: nothing is committed
WriteRaises(t) ==
    /\ pc[t] = "write"
    /\ req' = [req EXCEPT ![t].failed = TRUE]
    /\ hist' = [hist EXCEPT !.failure = TRUE]
    /\ pc' = [pc EXCEPT ![t] = Escaped(t)]
    /\ UNCHANGED <<shutdown_flag, tip, start_height, last_height, current_block_height,
                   block_height, written, driver_closed, cfg>>
    /\ UNCHANGED <<net_vars, part_vars, w_vars, idx_vars, sync_vars, val_vars>>

\* line 54 (head follower only): the node is asked for its height again
\* after the write, and the call raises
ProgressRaises ==
    /\ pc[0] \in {"post_ok", "post_failed"}
    /\ hist' = [hist EXCEPT !.failure = TRUE]
    /\ pc' = [pc EXCEPT ![0] = "except"]
    /\ UNCHANGED <<shutdown_flag, tip, start_height, last_height, current_block_height,
                   block_height, written, driver_closed, cfg, req>>
    /\ UNCHANGED <<net_vars, part_vars, w_vars, idx_vars, sync_vars, val_vars>>

\* a governor that would also throttle at exactly the threshold
ThrottledAtThreshold(num_transactions) ==
    num_transactions >= threshold

\* lines 86 / 164: if num_transactions > threshold
Throttled(num_transactions) ==
    num_transactions > threshold

\* lines 80-93 / 158-171
Post(t) ==
    /\ pc[t] \in {"post_ok", "post_failed"}
    /\ block_height' = [block_height EXCEPT ![t] = NextCursor(@, pc[t] = "post_ok")]
    /\ pc' = [pc EXCEPT ![t] =
                 IF pc[t] = "post_failed" THEN "sleep_fail"
                 ELSE IF Throttled(NumTx(block_height[t])) THEN "sleep_throttle"
                 ELSE "check"]
    /\ UNCHANGED <<shutdown_flag, tip, start_height, last_height, current_block_height,
                   written, driver_closed, cfg, req, hist>>
    /\ UNCHANGED <<net_vars, part_vars, w_vars, idx_vars, sync_vars, val_vars>>

\* an inner loop that would not read the flag after a write
BreakCondNever(flag) ==
    FALSE

\* lines 95 / 173: if shutdown_flag
BreakCond(flag) ==
    flag

\* lines 95-97 / 173-175
Check(t) ==
    /\ pc[t] = "check"
    /\ pc' = [pc EXCEPT ![t] = IF BreakCond(shutdown_flag) THEN "loop" ELSE "inner"]
    /\ UNCHANGED <<shutdown_flag, tip, start_height, last_height, current_block_height,
                   block_height, written, driver_closed, cfg, req, hist>>
    /\ UNCHANGED <<net_vars, part_vars, w_vars, idx_vars, sync_vars, val_vars>>

\* line 28 raises inside index_blocks
PollRaises ==
    /\ pc[0] = "loop"
    /\ ~shutdown_flag
    /\ hist' = [hist EXCEPT !.failure = TRUE]
    /\ pc' = [pc EXCEPT ![0] = "except"]
    /\ UNCHANGED <<shutdown_flag, tip, start_height, last_height, current_block_height,
                   block_height, written, driver_closed, cfg, req>>
    /\ UNCHANGED <<net_vars, part_vars, w_vars, idx_vars, sync_vars, val_vars>>

\* __main__ lines 249-255 and back to 239-246: log, sleep(retry_delay), the
\* finally clause closes the driver, index_blocks is called again
MainRetry ==
    /\ pc[0] = "except"
    /\ driver_closed' = TRUE
    /\ pc' = [pc EXCEPT ![0] = "loop"]
    /\ UNCHANGED <<shutdown_flag, tip, start_height, last_height, current_block_height,
                   block_height, written, cfg, req, hist>>
    /\ UNCHANGED <<net_vars, part_vars, w_vars, idx_vars, sync_vars, val_vars>>

\* __main__ lines 246-248, 254-256: index_blocks returned, break, finally
MainFinally ==
    /\ pc[0] = "returned"
    /\ driver_closed' = TRUE
    /\ pc' = [pc EXCEPT ![0] = "done"]
    /\ UNCHANGED <<shutdown_flag, tip, start_height, last_height, current_block_height,
                   block_height, written, cfg, req, hist>>
    /\ UNCHANGED <<net_vars, part_vars, w_vars, idx_vars, sync_vars, val_vars>>

IxNext ==
    \/ Shutdown
    \/ AdvanceTip
    \/ PollRaises
    \/ ProgressRaises
    \/ MainRetry
    \/ MainFinally
    \/ \E t \in Threads : Loop(t)
    \/ \E t \in Threads : Wake(t)
    \/ \E t \in Threads : InnerExit(t)
    \/ \E t \in Threads : Fetch(t)
    \/ \E t \in Threads : FetchRaises(t)
    \/ \E t \in Threads : WriteOk(t)
    \/ \E t \in Threads : WriteFailed(t)
    \/ \E t \in Threads : WriteRaises(t)
    \/ \E t \in Threads : Post(t)
    \/ \E t \in Threads : Check(t)

(***************************************************************************)
(* Schema bootstrap: create_indexes (v2 lines 74-100, v1 lines 37-64).     *)
(* An index is known by the name label-property that line 82 builds from   *)
(* a row of SHOW INDEX INFO.                                               *)
(***************************************************************************)
MaxIdxCalls == 2

\* index_creation_statements, in insertion order: the key, and the label and
\* property that the statement CREATE INDEX ON :label(property) names
index_creation_statements(variant) ==
    IF variant = "v2"
    THEN <<[key |-> "Transaction-tx_id", label |-> "Transaction", property |-> "tx_id"],
           [key |-> "Transaction-block_height", label |-> "Transaction",
            property |-> "block_height"],
           [key |-> "Transaction-out_total_amount", label |-> "Transaction",
            property |-> "out_total_amount"],
           [key |-> "Address-address", label |-> "Address", property |-> "address"],
           [key |-> "SENT-value_satoshi", label |-> "SENT", property |-> "value_satoshi"]>>
    ELSE <<[key |-> "Transaction-tx_id", label |-> "Transaction", property |-> "tx_id"],
           [key |-> "Transaction-block_height", label |-> "Transaction",
            property |-> "block_height"],
           [key |-> "Address-address", label |-> "Address", property |-> "address"],
           [key |-> "SENT-value_satoshi", label |-> "SENT", property |-> "value_satoshi"]>>

\* the rows SHOW INDEX INFO may return when create_indexes is first called
IndexRows ==
    {[label |-> "Transaction", property |-> "tx_id"],
     [label |-> "Transaction", property |-> "block_height"],
     [label |-> "Transaction", property |-> "out_total_amount"],
     [label |-> "Address", property |-> "address"],
     [label |-> "SENT", property |-> "value_satoshi"],
     [label |-> "Block", property |-> "hash"]}

\* line 82: index_name = f"{label}-{property}"
IndexName(record) ==
    record.label \o "-" \o record.property

\* lines 78-84: the names of the rows of SHOW INDEX INFO
ExistingIndexSet(rows) ==
    {IndexName(record) : record \in rows}

\* the row that a successful CREATE INDEX ON :label(property) adds
CreatedRow(statement) ==
    [label |-> statement.label, property |-> statement.property]

\* a test that would find every index missing
MissingAlways(index_name, existing) ==
    TRUE

\* line 95: if index_name not in existing_index_set
Missing(index_name, existing) ==
    index_name \notin existing

IdxInit ==
    /\ idx_pc = "idle"
    /\ idx_variant \in {"v1", "v2"}
    /\ idx_store \in SUBSET IndexRows
    /\ existing_index_set = {}
    /\ idx_k = 1
    /\ idx_issued = {}
    /\ idx_failed = {}
    /\ idx_calls = 0
    /\ idx_last = "none"

IdxIdle ==
    /\ idx_pc = "off"
    /\ idx_variant = "v2"
    /\ idx_store = {}
    /\ existing_index_set = {}
    /\ idx_k = 1
    /\ idx_issued = {}
    /\ idx_failed = {}
    /\ idx_calls = 0
    /\ idx_last = "none"

\* how the call that has just ended went
IdxOutcome ==
    IF idx_calls = 0 THEN "none"
    ELSE IF idx_pc = "raised" THEN "raised"
    ELSE IF idx_failed = {} THEN "clean" ELSE "failures"

\* lines 75-84: SHOW INDEX INFO, existing_index_set
IdxBegin ==
    /\ idx_pc \in {"idle", "raised"}
    /\ idx_calls < MaxIdxCalls
    /\ idx_last' = IdxOutcome
    /\ existing_index_set' = ExistingIndexSet(idx_store)
    /\ idx_k' = 1
    /\ idx_issued' = {}
    /\ idx_failed' = {}
    /\ idx_calls' = idx_calls + 1
    /\ idx_pc' = "loop"
    /\ UNCHANGED <<idx_variant, idx_store>>
    /\ UNCHANGED <<net_vars, part_vars, w_vars, ix_vars, sync_vars, val_vars>>

\* line 77 raises: the exception leaves create_indexes
IdxShowRaises ==
    /\ idx_pc \in {"idle", "raised"}
    /\ idx_calls < MaxIdxCalls
    /\ idx_last' = IdxOutcome
    /\ idx_issued' = {}
    /\ idx_failed' = {}
    /\ idx_calls' = idx_calls + 1
    /\ idx_pc' = "raised"
    /\ UNCHANGED <<idx_variant, idx_store, existing_index_set, idx_k>>
    /\ UNCHANGED <<net_vars, part_vars, w_vars, ix_vars, sync_vars, val_vars>>

\* lines 94-95: the index is in existing_index_set, nothing is run
IdxSkip ==
    /\ idx_pc = "loop"
    /\ idx_k <= Len(index_creation_statements(idx_variant))
    /\ ~Missing(index_creation_statements(idx_variant)[idx_k].key, existing_index_set)
    /\ idx_k' = idx_k + 1
    /\ UNCHANGED <<idx_pc, idx_variant, idx_store, existing_index_set, idx_issued, idx_failed,
                   idx_calls, idx_last>>
    /\ UNCHANGED <<net_vars, part_vars, w_vars, ix_vars, sync_vars, val_vars>>

\* lines 95-98: session.run(statement) creates the index
IdxCreate ==
    /\ idx_pc = "loop"
    /\ idx_k <= Len(index_creation_statements(idx_variant))
    /\ Missing(index_creation_statements(idx_variant)[idx_k].key, existing_index_set)
    /\ idx_issued' = idx_issued \cup {index_creation_statements(idx_variant)[idx_k].key}
    /\ idx_store' = idx_store \cup {CreatedRow(index_creation_statements(idx_variant)[idx_k])}
    /\ idx_k' = idx_k + 1
    /\ UNCHANGED <<idx_pc, idx_variant, existing_index_set, idx_failed, idx_calls, idx_last>>
    /\ UNCHANGED <<net_vars, part_vars, w_vars, ix_vars, sync_vars, val_vars>>

\* lines 96-100: session.run(statement) raises, the exception is logged
IdxCreateRaises ==
    /\ idx_pc = "loop"
    /\ idx_k <= Len(index_creation_statements(idx_variant))
    /\ Missing(index_creation_statements(idx_variant)[idx_k].key, existing_index_set)
    /\ idx_issued' = idx_issued \cup {index_creation_statements(idx_variant)[idx_k].key}
    /\ idx_failed' = idx_failed \cup {index_creation_statements(idx_variant)[idx_k].key}
    /\ idx_k' = idx_k + 1
    /\ UNCHANGED <<idx_pc, idx_variant, idx_store, existing_index_set, idx_calls, idx_last>>
    /\ UNCHANGED <<net_vars, part_vars, w_vars, ix_vars, sync_vars, val_vars>>

\* the for loop of line 94 is exhausted: create_indexes returns
IdxReturn ==
    /\ idx_pc = "loop"
    /\ idx_k > Len(index_creation_statements(idx_variant))
    /\ idx_pc' = "idle"
    /\ UNCHANGED <<idx_variant, idx_store, existing_index_set, idx_k, idx_issued, idx_failed,
                   idx_calls, idx_last>>
    /\ UNCHANGED <<net_vars, part_vars, w_vars, ix_vars, sync_vars, val_vars>>

IdxNext ==
    \/ IdxBegin
    \/ IdxShowRaises
    \/ IdxSkip
    \/ IdxCreate
    \/ IdxCreateRaises
    \/ IdxReturn

(***************************************************************************)
(* The miner's sync gate: wait_for_blocks_sync (miner.py lines 281-311).   *)
(* Each pass of the loop asks the node for its height and the graph store  *)
(* for its latest block number; either call, or the construction of the    *)
(* two clients before them, may raise.                                     *)
(***************************************************************************)
sync_threshold == 100

MaxPolls == 3

\* the node heights and the store heights a poll may read
NodeHeights == {100, 199, 200}

GraphHeights == {0, 100, 101}

\* a test that would also accept a delta of exactly the threshold
SyncedAtThreshold(latest, current) ==
    latest - current <= sync_threshold

\* lines 299-300: delta = latest_block_height - current_block_height; delta < 100
Synced(latest, current) ==
    latest - current < sync_threshold

SyncInit ==
    /\ sync_pc = "start"
    /\ wait_for_sync \in BOOLEAN
    /\ is_synced = FALSE
    /\ sync_latest_block_height = -1
    /\ sync_current_block_height = -1
    /\ sync_polls = 0
    /\ sync_last = "none"
    /\ sync_raises = 0
    /\ sync_ret = "none"

SyncIdle ==
    /\ sync_pc = "off"
    /\ wait_for_sync = FALSE
    /\ is_synced = FALSE
    /\ sync_latest_block_height = -1
    /\ sync_current_block_height = -1
    /\ sync_polls = 0
    /\ sync_last = "none"
    /\ sync_raises = 0
    /\ sync_ret = "none"

\* lines 282-291: is_synced = False; return it at once if wait_for_sync is off
SyncStart ==
    /\ sync_pc = "start"
    /\ IF ~wait_for_sync
       THEN sync_pc' = "returned" /\ sync_ret' = (IF is_synced THEN "True" ELSE "False")
       ELSE sync_pc' = "loop" /\ UNCHANGED sync_ret
    /\ UNCHANGED <<wait_for_sync, is_synced, sync_latest_block_height,
                   sync_current_block_height, sync_polls, sync_last, sync_raises>>
    /\ UNCHANGED <<net_vars, part_vars, w_vars, ix_vars, idx_vars, val_vars>>

\* line 292: while not is_synced
SyncLoop ==
    /\ sync_pc = "loop"
    /\ IF is_synced
       THEN sync_pc' = "returned" /\ sync_ret' = (IF is_synced THEN "True" ELSE "False") /\ UNCHANGED sync_polls
       ELSE /\ sync_polls < MaxPolls
            /\ sync_pc' = "poll"
            /\ sync_polls' = sync_polls + 1
            /\ UNCHANGED sync_ret
    /\ UNCHANGED <<wait_for_sync, is_synced, sync_latest_block_height,
                   sync_current_block_height, sync_last, sync_raises>>
    /\ UNCHANGED <<net_vars, part_vars, w_vars, ix_vars, idx_vars, val_vars>>

\* lines 293-305: both heights are read; synced, or log and sleep
SyncPoll ==
    /\ sync_pc = "poll"
    /\ \E latest \in NodeHeights, current \in GraphHeights :
          /\ sync_latest_block_height' = latest
          /\ sync_current_block_height' = current
          /\ is_synced' = IF Synced(latest, current) THEN TRUE ELSE is_synced
          /\ sync_pc' = IF Synced(latest, current) THEN "loop" ELSE "sleep"
    /\ sync_last' = (IF is_synced' THEN "synced" ELSE "behind")
    /\ UNCHANGED <<wait_for_sync, sync_polls, sync_raises, sync_ret>>
    /\ UNCHANGED <<net_vars, part_vars, w_vars, ix_vars, idx_vars, val_vars>>

\* lines 294-298 raise, lines 306-310: log, sleep, continue
SyncPollRaises ==
    /\ sync_pc = "poll"
    /\ sync_last' = "raised"
    /\ sync_raises' = sync_raises + 1
    /\ sync_pc' = "sleep"
    /\ \/ UNCHANGED sync_latest_block_height
       \/ sync_latest_block_height' \in NodeHeights
    /\ UNCHANGED <<wait_for_sync, is_synced, sync_current_block_height,
                   sync_polls, sync_ret>>
    /\ UNCHANGED <<net_vars, part_vars, w_vars, ix_vars, idx_vars, val_vars>>

\* time.sleep returns (lines 305, 308): back to the while test
SyncWake ==
    /\ sync_pc = "sleep"
    /\ sync_pc' = "loop"
    /\ UNCHANGED <<wait_for_sync, is_synced, sync_latest_block_height,
                   sync_current_block_height, sync_polls, sync_last, sync_raises,
                   sync_ret>>
    /\ UNCHANGED <<net_vars, part_vars, w_vars, ix_vars, idx_vars, val_vars>>

SyncNext ==
    \/ SyncStart
    \/ SyncLoop
    \/ SyncPoll
    \/ SyncPollRaises
    \/ SyncWake

(***************************************************************************)
(* The validator loop: main of validator.py.  A response is abstracted to  *)
(* what the loop looks at: whether response.output is None, how many data  *)
(* samples it carries, and the position of the first sample that           *)
(* verify_data_sample rejects (0 when every sample is accepted).           *)
(***************************************************************************)
min_samples == 10
MaxResponses == 2
MaxSteps == 2

SampleCounts == {0, 1, min_samples}

NoOutput == [output |-> FALSE, len |-> 0, bad |-> 0]

Outputs ==
    {r \in [output : {TRUE}, len : SampleCounts, bad : {0, 1, min_samples}] : r.bad <= r.len}

RECURSIVE ResponseLists(_)
ResponseLists(n) ==
    IF n = 0 THEN {<<>>}
    ELSE LET shorter == ResponseLists(n - 1)
         IN shorter \cup {Append(l, r) : l \in {x \in shorter : Len(x) = n - 1},
                                         r \in Outputs \cup {NoOutput}}

\* line 193: fewer than 10 samples are not valid
DataSamplesAreValid(response) == ~(response.len < min_samples)

ValInit ==
    /\ val_pc = "setup"
    /\ val_registered \in BOOLEAN
    /\ val_step = 0
    /\ val_responses = <<>>
    /\ val_index = 0
    /\ val_scored = {}
    /\ val_end = "none"

ValIdle ==
    /\ val_pc = "off"
    /\ val_registered = FALSE
    /\ val_step = 0
    /\ val_responses = <<>>
    /\ val_index = 0
    /\ val_scored = {}
    /\ val_end = "none"

\* lines 83-99: exit() if the hotkey is not registered; else start the loop
ValSetup ==
    /\ val_pc = "setup"
    /\ IF ~val_registered
       THEN val_pc' = "ended" /\ val_end' = "not_registered"
       ELSE val_pc' = "round" /\ UNCHANGED val_end
    /\ UNCHANGED <<val_registered, val_step, val_responses, val_index, val_scored>>
    /\ UNCHANGED <<net_vars, part_vars, w_vars, ix_vars, idx_vars, sync_vars>>

\* lines 101-161: the query; no online miner: sleep and continue
ValQuery ==
    /\ val_pc = "round"
    /\ val_step < MaxSteps
    /\ \E responses \in ResponseLists(MaxResponses), no_miner \in BOOLEAN :
          IF no_miner
          THEN /\ val_pc' = "round"
               /\ val_responses' = <<>>
               /\ val_index' = 0
               /\ val_scored' = {}
          ELSE /\ val_pc' = "response"
               /\ val_responses' = responses
               /\ val_index' = 1
               /\ val_scored' = {}
    /\ UNCHANGED <<val_registered, val_step, val_end>>
    /\ UNCHANGED <<net_vars, part_vars, w_vars, ix_vars, idx_vars, sync_vars>>

\* lines 161-235: one pass of the for loop over the responses
ValResponse ==
    /\ val_pc = "response"
    /\ val_index <= Len(val_responses)
    /\ LET response == val_responses[val_index]
       IN IF ~response.output
          THEN \* lines 163-165
               /\ val_index' = val_index + 1
               /\ UNCHANGED <<val_pc, val_scored, val_end>>
          ELSE IF response.bad # 0
          THEN \* lines 183-191: return False leaves main
               /\ val_pc' = "ended"
               /\ val_end' = "returned"
               /\ UNCHANGED <<val_index, val_scored>>
          ELSE \* lines 193-235
               /\ val_scored' = val_scored \cup {<<val_index, DataSamplesAreValid(response)>>}
               /\ val_index' = val_index + 1
               /\ UNCHANGED <<val_pc, val_end>>
    /\ UNCHANGED <<val_registered, val_step, val_responses>>
    /\ UNCHANGED <<net_vars, part_vars, w_vars, ix_vars, idx_vars, sync_vars>>

\* lines 237-259: the for loop is over; weights, step += 1, sleep
ValRoundEnd ==
    /\ val_pc = "response"
    /\ val_index > Len(val_responses)
    /\ val_step' = val_step + 1
    /\ val_pc' = "round"
    /\ UNCHANGED <<val_registered, val_responses, val_index, val_scored, val_end>>
    /\ UNCHANGED <<net_vars, part_vars, w_vars, ix_vars, idx_vars, sync_vars>>

\* lines 138, 261-267: an exception inside the try block; RuntimeError is
\* logged and the loop goes on, KeyboardInterrupt calls exit(), any other
\* exception has no handler and leaves main
ValRaises ==
    /\ val_pc = "response"
    /\ \E kind \in {"RuntimeError", "KeyboardInterrupt", "Exception"} :
          IF kind = "RuntimeError"
          THEN val_pc' = "round" /\ UNCHANGED val_end
          ELSE val_pc' = "ended" /\ val_end' = kind
    /\ UNCHANGED <<val_registered, val_step, val_responses, val_index, val_scored>>
    /\ UNCHANGED <<net_vars, part_vars, w_vars, ix_vars, idx_vars, sync_vars>>

ValNext ==
    \/ ValSetup
    \/ ValQuery
    \/ ValResponse
    \/ ValRoundEnd
    \/ ValRaises

(***************************************************************************)
(* The specifications.                                                     *)
(***************************************************************************)
InitNet ==
    NetInit /\ PartIdle /\ WIdle /\ IxIdle /\ IdxIdle /\ SyncIdle /\ ValIdle

NetNext ==
    \/ NetPass
    \/ NetEmit

SpecNet ==
    InitNet /\ [][NetNext]_vars

InitPart ==
    PartInit /\ NetIdle /\ WIdle /\ IxIdle /\ IdxIdle /\ SyncIdle /\ ValIdle

PartNext ==
    PartSplit

SpecPart ==
    InitPart /\ [][PartNext]_vars

InitW ==
    WInit /\ NetIdle /\ PartIdle /\ IxIdle /\ IdxIdle /\ SyncIdle /\ ValIdle

SpecW ==
    InitW /\ [][WNext]_vars

InitSync ==
    SyncInit /\ NetIdle /\ PartIdle /\ WIdle /\ IxIdle /\ IdxIdle /\ ValIdle

SpecSync ==
    InitSync /\ [][SyncNext]_vars

InitVal ==
    ValInit /\ NetIdle /\ PartIdle /\ WIdle /\ IxIdle /\ IdxIdle /\ SyncIdle

SpecVal ==
    InitVal /\ [][ValNext]_vars

InitIdx ==
    IdxInit /\ NetIdle /\ PartIdle /\ WIdle /\ IxIdle /\ SyncIdle /\ ValIdle

SpecIdx ==
    InitIdx /\ [][IdxNext]_vars

Init ==
    IxInit /\ NetIdle /\ PartIdle /\ WIdle /\ IdxIdle /\ SyncIdle /\ ValIdle

Next ==
    IxNext

Spec ==
    Init /\ [][Next]_vars

(***************************************************************************)
(* The indexer with no shutdown signal and no exception, under the         *)
(* scheduling the threads get: every thread that can take a step           *)
(* eventually takes one, and a write that is retried for ever eventually   *)
(* succeeds.                                                               *)
(***************************************************************************)
MaxThreads == 2

\* a step of thread t other than the outcome of its write
Step(t) ==
    /\ t \in Threads
    /\ (Loop(t) \/ Wake(t) \/ InnerExit(t) \/ Fetch(t) \/ Post(t) \/ Check(t))

NextLive ==
    \/ AdvanceTip
    \/ \E t \in Threads : Loop(t)
    \/ \E t \in Threads : Wake(t)
    \/ \E t \in Threads : InnerExit(t)
    \/ \E t \in Threads : Fetch(t)
    \/ \E t \in Threads : WriteOk(t)
    \/ \E t \in Threads : WriteFailed(t)
    \/ \E t \in Threads : Post(t)
    \/ \E t \in Threads : Check(t)

SpecLive ==
    /\ Init
    /\ [][NextLive]_vars
    /\ \A t \in 0..MaxThreads : WF_vars(Step(t)) /\ SF_vars(t \in Threads /\ WriteOk(t))

(***************************************************************************)
(* The indexer with signals and exceptions, under the scheduling the       *)
(* threads get: a thread that has not ended eventually takes its next      *)
(* step, that is, every fetch, write and sleep returns or raises, and the  *)
(* main thread runs its except and finally clauses.                        *)
(***************************************************************************)
Run(t) ==
    /\ t \in Threads
    /\ \/ Loop(t) \/ Wake(t) \/ InnerExit(t) \/ Fetch(t) \/ FetchRaises(t)
       \/ WriteOk(t) \/ WriteFailed(t) \/ WriteRaises(t) \/ Post(t) \/ Check(t)
       \/ (t = 0 /\ (PollRaises \/ ProgressRaises \/ MainRetry \/ MainFinally))

InitStop ==
    IxInitStop /\ NetIdle /\ PartIdle /\ WIdle /\ IdxIdle /\ SyncIdle /\ ValIdle

SpecStop ==
    /\ InitStop
    /\ [][Next]_vars
    /\ \A t \in 0..MaxThreads : WF_vars(Run(t))

(***************************************************************************)
(* Claims.                                                                 *)
(***************************************************************************)

C2_NettingCorrect ==
    net_pc = "netted" =>
       \A a \in DictKeys(RawIn(net_vins)) \cap DictKeys(RawOut(net_vouts)) :
          LET ri == DictGet(RawIn(net_vins), a)
              ro == DictGet(RawOut(net_vouts), a)
              ni == DictGet(in_amount_by_address, a)
              no == DictGet(out_amount_by_address, a)
          IN  /\ ~(ni # 0 /\ no # 0)
              /\ (ni = 0 /\ no = 0) <=> (ri = ro)
              /\ ni - no = ri - ro

\* C2 witness: an address with different nonzero raw amounts on both sides,
\* one of them summed from two entries, has been netted
C2_Witness ==
    /\ net_pc = "netted"
    /\ \E a \in DictKeys(RawIn(net_vins)) \cap DictKeys(RawOut(net_vouts)) :
          /\ DictGet(RawIn(net_vins), a) > DictGet(RawOut(net_vouts), a)
          /\ DictGet(RawOut(net_vouts), a) > 0
          /\ Len(net_vins) = 2
          /\ Len(RawIn(net_vins)) = 1
          /\ DictGet(in_amount_by_address, a) > 0

\* C3 (Spec): in a run with no failure and no shutdown, every height is
\* written at most once
C3_EachHeightWrittenOnce ==
    (~hist.failure /\ ~shutdown_flag) => \A h \in DOMAIN written : written[h] <= 1

\* thread t asks the node for the block at block_height[t] in this step
RequestStep(t) ==
    /\ pc[t] = "inner"
    /\ InnerCond(block_height[t], current_block_height[t])
    /\ (pc'[t] # pc[t] \/ block_height'[t] # block_height[t])

\* C4 (Spec): the heights a thread requests are strictly increasing, except
\* for a repeat of the height whose write just failed
C4_RequestsIncrease ==
    [][\A t \in Threads :
          (RequestStep(t) /\ req[t].h # -1) =>
             \/ block_height[t] > req[t].h
             \/ block_height[t] = req[t].h /\ req[t].failed]_vars

InRange(r, h) ==
    r.start <= h /\ h <= r.last

\* C5 (SpecPart): for start <= end the sub-ranges cover [start, end] exactly
\* once, each follows the one before it without gap or overlap, none
\* reaches outside, and the last one ends at end
C5_PartitionComplete ==
    (part_pc = "split" /\ part_start <= part_last) =>
       /\ Len(part_ranges) = part_threads
       /\ \A h \in part_start..part_last :
             Cardinality({k \in 1..part_threads : InRange(part_ranges[k], h)}) = 1
       /\ \A k \in 1..part_threads :
             part_ranges[k].start >= part_start /\ part_ranges[k].last <= part_last
       /\ \A k \in 1..(part_threads - 1) :
             part_ranges[k + 1].start = part_ranges[k].last + 1
       /\ part_ranges[part_threads].last = part_last

\* C5 witness: a split over several threads with a remainder
C5_Witness ==
    /\ part_pc = "split"
    /\ part_start < part_last
    /\ part_threads >= 2
    /\ thread_depth(part_start, part_last, part_threads) >= 1
    /\ restHeight(part_start, part_last, part_threads) > 0

\* every non-empty block of every backfill sub-range that is at least the
\* confirmation depth behind the tip is in the store
BackfillCovered ==
    \A t \in Backfill : \A h \in start_height[t]..last_height[t] :
        (NumTx(h) > 0 /\ h <= tip - confirmations) => written[h] > 0

\* C6 (SpecLive): backfill coverage is eventually reached
C6_BackfillCoverage ==
    <>BackfillCovered

\* C7 (Spec): the head follower never requests a height above
\* tip - confirmation depth
C7_ConfirmationMargin ==
    req[0].h # -1 => req[0].h <= tip - confirmations

\* C7 witness: the head follower has requested the highest height it may
C7_Witness ==
    /\ req[0].h # -1
    /\ req[0].h = tip - confirmations - skip_blocks
    /\ pc[0] = "write"

\* C8 (Spec): the cursor moves from h to h + 1 only after block h was
\* committed or found empty; after a write that reported failure the next
\* height the thread requests is h again; no non-empty block between the
\* thread's start and its cursor is missing from the store
C8_CursorAdvancesOnSuccess ==
    /\ [][\A t \in Threads :
             /\ block_height'[t] = block_height[t] + 1
                   => (written[block_height[t]] > 0 \/ NumTx(block_height[t]) = 0)
             /\ (RequestStep(t) /\ req[t].failed) => block_height[t] = req[t].h]_vars
    /\ [](\A t \in Threads : \A h \in start_height[t]..(block_height[t] - 1) :
             NumTx(h) > 0 => written[h] > 0)

\* C9 (Spec): at every point where the process may be stopped, every
\* non-empty block of the run's range below the resume point
\* get_latest_block_number() + 1 is in the store
C9_ResumeSkipsNothing ==
    \A h \in MainStartHeight(cfg)..MainLastHeight(cfg) :
        (NumTx(h) > 0 /\ h < get_latest_block_number(Indexed) + 1) => h \in Indexed

\* C10 (Spec): no exception raised while a block is fetched, built or
\* written ends a backfill thread
C10_FailuresContained ==
    \A t \in Backfill : pc[t] # "dead"

\* C11 (Spec): a thread leaves a block write it started only when the write
\* call has returned (success or failure), and a thread's loop has ended
\* only if the shutdown flag is set
C11_ShutdownBetweenBlocks ==
    /\ [][\A t \in Threads :
             pc[t] = "write" => pc'[t] \in {"write", "post_ok", "post_failed"}]_vars
    /\ [](\A t \in Threads :
             pc[t] \in {"done", "returned", "dead", "except"} => shutdown_flag)

NoDuplicateNodes(store) ==
    /\ \A j, k \in 1..Len(store.txs) : store.txs[j].tx_id = store.txs[k].tx_id => j = k
    /\ \A j, k \in 1..Len(store.addrs) : store.addrs[j] = store.addrs[k] => j = k

\* C12 (SpecW): whatever blocks the writer is applied to, and however often
\* (a block again, or again with other attribute values), the store never
\* holds two Transaction nodes with one tx_id or two Address nodes with one
\* address, every Transaction node carries attributes, and a Transaction
\* node that is in the store keeps the attributes it was created with, in
\* the committed store and inside the open transaction
C12_IdempotentUpsert ==
    /\ [](/\ NoDuplicateNodes(w_store)
          /\ NoDuplicateNodes(w_pending)
          /\ \A k \in 1..Len(w_pending.txs) : w_pending.txs[k].props # {}
          /\ \A k \in 1..Len(w_store.txs) :
                k <= Len(w_pending.txs) /\ w_pending.txs[k] = w_store.txs[k])
    /\ [][\A k \in 1..Len(w_store.txs) :
             k <= Len(w_store'.txs) /\ w_store'.txs[k] = w_store.txs[k]]_vars

\* C12 witness: a second call has committed a block whose first transaction
\* was already in the store with other attribute values
C12_Witness ==
    /\ w_pc = "idle"
    /\ w_calls = 2
    /\ w_ret = "True"
    /\ Len(w_block) > 0
    /\ \E k \in 1..Len(w_pre.txs) :
          /\ w_pre.txs[k].tx_id = w_block[1].tx_id
          /\ w_pre.txs[k].props # {BatchRecords(w_variant, <<w_block[1]>>).txns[1]}
          /\ w_store.txs[k] = w_pre.txs[k]

\* the head follower's first request happens in this step
FirstHeadRequest ==
    req[0].h = -1 /\ req'[0].h # -1

C14_TargetEndHeight ==
    last_height[cfg.num_threads] =
        (IF cfg.last_override # NoOverride THEN cfg.last_override ELSE cfg.tip0)

\* the heights thread t is responsible for: its sub-range, or for the head
\* follower everything from its start height on
OwnRange(t) ==
    IF t = 0 THEN start_height[0]..MaxTip ELSE start_height[t]..last_height[t]

\* height h is committed while the lower non-empty height l is not
CommitGap(l, h) ==
    l < h /\ written[h] > 0 /\ NumTx(l) > 0 /\ written[l] = 0

\* C15 (Spec): a committed height above an uncommitted non-empty height
\* never lies in the same thread's range as that height: a thread commits
\* its own heights in increasing order, so such a pair always spans two
\* threads' ranges (the witness shows that the pair exists with two
\* backfill threads, below the store's maximum height)
C15_GapsOnlyAcrossRanges ==
    \A t \in Threads : \A h \in OwnRange(t) :
        written[h] > 0 => \A l \in OwnRange(t) : ~CommitGap(l, h)

\* C15 witness: with two backfill threads, a height of one thread's
\* sub-range is committed, a lower non-empty height of another thread's
\* sub-range is not, and the store's maximum height is above it
C15_Witness ==
    /\ cfg.num_threads >= 2
    /\ \E t1, t2 \in Backfill :
          /\ t1 # t2
          /\ \E l \in OwnRange(t1) : \E h \in OwnRange(t2) :
                /\ CommitGap(l, h)
                /\ l \notin Indexed
                /\ get_latest_block_number(Indexed) >= h

\* the store after the statements of the writer have run on the whole block
\* as one batch
WriteWhole(variant, store, block) ==
    LET r == BatchRecords(variant, block)
    IN  RunEdges(RunEdges(RunTransactions(store, r.txns), r.inputs), r.outputs)

EdgeCount(store, e) ==
    Cardinality({k \in 1..Len(store.edges) : store.edges[k] = e})

\* the same nodes with the same attributes and the same multiset of edges
SameStore(a, b) ==
    /\ Len(a.txs) = Len(b.txs)
    /\ {a.txs[k] : k \in 1..Len(a.txs)} = {b.txs[k] : k \in 1..Len(b.txs)}
    /\ Len(a.addrs) = Len(b.addrs)
    /\ {a.addrs[k] : k \in 1..Len(a.addrs)} = {b.addrs[k] : k \in 1..Len(b.addrs)}
    /\ Len(a.edges) = Len(b.edges)
    /\ \A k \in 1..Len(a.edges) : EdgeCount(a, a.edges[k]) = EdgeCount(b, a.edges[k])

\* C16 (SpecW): for every block, every store the call starts from and every
\* batch size, a call that returned True leaves the store that writing the
\* whole block as one batch gives (same nodes, attributes and multiset of
\* edges), so any two batch sizes give the same store; a call that failed
\* leaves the store it started from
C16_BatchSizeNoEffect ==
    (w_pc = "idle" /\ w_calls > 0) =>
       /\ w_ret = "True" => SameStore(w_store, WriteWhole(w_variant, w_pre, w_block))
       /\ w_ret # "True" => w_store = w_pre

\* C16 witness: a call on a block of more transactions than the batch size,
\* in batches of two with a shorter last batch, has returned True
C16_Witness ==
    /\ w_pc = "idle"
    /\ w_ret = "True"
    /\ w_batch_size = 2
    /\ w_batches_run = 2
    /\ Len(w_block) = 3

RECURSIVE SumValues(_)
SumValues(vouts) ==
    IF vouts = <<>> THEN 0 ELSE Head(vouts).value_satoshi + SumValues(Tail(vouts))

RECURSIVE SumRecords(_)
SumRecords(records) ==
    IF records = <<>> THEN 0 ELSE Head(records).amount + SumRecords(Tail(records))

OnlyCoinbaseInputs ==
    \A k \in 1..Len(net_vins) : net_vins[k].tx_id = 0

\* C17 (SpecNet): for a transaction all of whose inputs are the coinbase
\* sentinel, the node adapter is asked to resolve nothing, no inbound record
\* is emitted, in_total_amount is 0 and out_total_amount is the sum of all
\* output amounts
C17_CoinbaseTotals ==
    (net_pc = "emitted" /\ OnlyCoinbaseInputs) =>
       /\ net_resolved = <<>>
       /\ net_records.inputs = <<>>
       /\ net_records.txn.in_total_amount = 0
       /\ net_records.txn.out_total_amount = SumValues(net_vouts)

\* C17 witness: the records of a coinbase transaction that pays one address
\* twice have been emitted
C17_Witness ==
    /\ net_pc = "emitted"
    /\ Len(net_vins) >= 1
    /\ OnlyCoinbaseInputs
    /\ net_records.txn.is_coinbase
    /\ Len(net_vouts) = 2
    /\ net_vouts[1].address = net_vouts[2].address
    /\ net_records.txn.out_total_amount = 2

\* C18 (SpecNet): the in_total_amount of the emitted transaction record is
\* the sum of the amounts of the emitted inbound records and its
\* out_total_amount the sum of the amounts of the emitted outbound records
C18_TotalsArePostNetting ==
    net_pc = "emitted" =>
       /\ net_records.txn.in_total_amount = SumRecords(net_records.inputs)
       /\ net_records.txn.out_total_amount = SumRecords(net_records.outputs)

\* C18 witness: records have been emitted whose totals are both smaller
\* than the raw input and output sums
C18_Witness ==
    /\ net_pc = "emitted"
    /\ net_records.txn.in_total_amount < SumRecords(RawIn(net_vins))
    /\ net_records.txn.out_total_amount < SumValues(net_vouts)
    /\ net_records.txn.out_total_amount > 0
    /\ net_records.txn.in_total_amount > 0

RecordAddresses(records) ==
    {records[k].address : k \in 1..Len(records)}

\* C19 (SpecNet): every emitted record has a strictly positive amount, an
\* address whose raw inbound and outbound amounts are equal has no record,
\* and no address has both an inbound and an outbound record
C19_ZeroEntriesDropped ==
    net_pc = "emitted" =>
       /\ \A k \in 1..Len(net_records.inputs) : net_records.inputs[k].amount > 0
       /\ \A k \in 1..Len(net_records.outputs) : net_records.outputs[k].amount > 0
       /\ \A a \in DictKeys(RawIn(net_vins)) \cap DictKeys(RawOut(net_vouts)) :
             DictGet(RawIn(net_vins), a) = DictGet(RawOut(net_vouts), a)
                => a \notin RecordAddresses(net_records.inputs) \cup RecordAddresses(net_records.outputs)
       /\ RecordAddresses(net_records.inputs) \cap RecordAddresses(net_records.outputs) = {}

\* C19 witness: records have been emitted for a transaction in which an
\* address received exactly what it spent (nonzero) and another address is
\* paid
C19_Witness ==
    /\ net_pc = "emitted"
    /\ \E a \in DictKeys(RawIn(net_vins)) \cap DictKeys(RawOut(net_vouts)) :
          /\ DictGet(RawIn(net_vins), a) = DictGet(RawOut(net_vouts), a)
          /\ DictGet(RawIn(net_vins), a) > 0
          /\ a \notin RecordAddresses(net_records.outputs)
    /\ Len(net_records.outputs) = 1

ProgressAsked ==
    w_progress' # w_progress

\* C21 (SpecW): whenever the progress tracker is asked, get_latest_block_number
\* returns the largest and get_min_block_number the smallest block_height of
\* a Transaction node of the committed store, both return 0 when the store
\* holds no Transaction node, the minimum is at most the maximum, and the
\* store is what it was
C21_ProgressTracker ==
    [][ProgressAsked =>
          LET hs == {w_store.txs[k].props : k \in 1..Len(w_store.txs)}
              heights == {r.block_height : r \in UNION hs}
          IN  /\ heights = {} => w_progress'.latest = 0 /\ w_progress'.min = 0
              /\ heights # {} =>
                    /\ w_progress'.latest \in heights
                    /\ w_progress'.min \in heights
                    /\ \A h \in heights : w_progress'.min <= h /\ h <= w_progress'.latest
              /\ w_progress'.min <= w_progress'.latest
              /\ w_store' = w_store
              /\ w_pending' = w_pending]_vars

\* C21 witness: the tracker has been asked on a store that holds blocks of
\* two heights
C21_Witness ==
    /\ w_progress.min >= 1
    /\ w_progress.latest > w_progress.min
    /\ Len(w_store.txs) >= 2

\* C22 (SpecW): when a writer call has ended, whether it committed, rolled
\* back after an exception, or let the exception of a failed rollback out,
\* the transaction it opened is closed; a transaction is open only while a
\* call is running
C22_ResourceRelease ==
    w_pc = "idle" => w_closed

\* C22 witness: a call in which the rollback itself raised has ended
C22_Witness ==
    /\ w_pc = "idle"
    /\ w_ret = "raised"
    /\ w_closed

RequiredIndexes ==
    {index_creation_statements(idx_variant)[k].key :
        k \in 1..Len(index_creation_statements(idx_variant))}

\* C23 (SpecIdx): a call runs CREATE INDEX only for required indexes that
\* were not in the existing-index set it read; when it returns it has run
\* one for every such index, whichever of them raised; and a call that
\* follows a call in which nothing raised runs none
C23_BootstrapIdempotent ==
    /\ idx_issued \subseteq RequiredIndexes \ existing_index_set
    /\ idx_failed \subseteq idx_issued
    /\ (idx_pc = "idle" /\ idx_calls > 0) =>
          idx_issued = RequiredIndexes \ existing_index_set
    /\ (idx_pc \in {"loop", "idle"} /\ idx_last = "clean") => idx_issued = {}

\* C23 witness: a call in which the first CREATE INDEX raised and a later
\* one succeeded has returned, leaving an index missing
C23_Witness ==
    /\ idx_pc = "idle"
    /\ idx_failed # {}
    /\ idx_issued \ idx_failed # {}
    /\ index_creation_statements(idx_variant)[1].key \in idx_failed
    /\ ~(RequiredIndexes \subseteq ExistingIndexSet(idx_store))

\* C23 second witness state: a call after a clean call has returned
C23_SecondCallWitness ==
    /\ idx_pc = "idle"
    /\ idx_calls = 2
    /\ idx_last = "clean"
    /\ RequiredIndexes \subseteq ExistingIndexSet(idx_store)


\* C24 (Spec): whenever the head follower reads the chain tip at the top of
\* its loop and no height is eligible (its cursor fails the test of the
\* inner loop against the height it has just read), it goes to sleep
C24_HeadFollowerSleeps ==
    [][(/\ pc[0] = "loop"
        /\ pc'[0] \in {"inner", "sleep_wait"}
        /\ ~InnerCond(start_height[0], current_block_height'[0]))
       => pc'[0] = "sleep_wait"]_vars


\* C25 (Spec): the sub-ranges of distinct backfill threads are pairwise
\* disjoint, every height a backfill thread requests lies in its own
\* sub-range, every height the head follower requests is at least
\* last_height + 1, and no height has a write begun by two different threads
C25_CrossWorkerDisjoint ==
    /\ \A t \in Backfill : \A u \in Backfill :
          t # u => OwnRange(t) \cap OwnRange(u) = {}
    /\ \A t \in Backfill : req[t].h # -1 => req[t].h \in OwnRange(t)
    /\ \A t \in Backfill : last_height[t] <= MainLastHeight(cfg)
    /\ req[0].h # -1 => req[0].h >= MainLastHeight(cfg) + 1
    /\ \A h \in DOMAIN hist.writers : Cardinality(hist.writers[h]) <= 1

\* C25 witness: with two backfill threads running side by side, each has
\* begun a write in its sub-range and the store holds a height of each
C25_Witness ==
    /\ cfg.num_threads = 2
    /\ \E h \in OwnRange(1) : hist.writers[h] = {1} /\ written[h] > 0
    /\ \E h \in OwnRange(2) : hist.writers[h] = {2} /\ written[h] > 0

\* C25 second witness state: the head follower has begun a write
C25_HeadWitness ==
    \E h \in DOMAIN hist.writers : hist.writers[h] = {0} /\ h > MainLastHeight(cfg)


\* C26 (Spec): no thread has a block write in flight, or begins one, on a
\* graph-store driver that has been closed
C26_CloseAfterWorkersStop ==
    \A t \in Threads : pc[t] = "write" => ~driver_closed


\* thread t has ended: a backfill thread's function has returned or an
\* exception has ended it, the main thread has left index_blocks for good
Terminated(t) ==
    IF t = 0 THEN pc[0] \in {"returned", "done"} ELSE pc[t] \in {"done", "dead"}

\* C27 (SpecStop): the shutdown flag, once set, stays set, and from any
\* state in which it is set every backfill thread and the head follower
\* eventually end
C27_TerminationOnShutdown ==
    /\ [][shutdown_flag => shutdown_flag']_vars
    /\ shutdown_flag ~> (\A t \in Threads : Terminated(t))

\* C27 witness: the signal has arrived, a thread has begun a write after
\* it, and every thread has ended
C27_Witness ==
    /\ shutdown_flag
    /\ \A t \in Threads : pc[t] = "done"
    /\ \E t \in Threads : hist.late[t] > 0


\* C28 (Spec): no thread begins more than one write attempt with the
\* shutdown flag set
C28_OneWriteAfterShutdown ==
    \A t \in Threads : hist.late[t] <= 1

\* C28 witness: with the flag set a thread has begun a write of a height
\* that follows an empty block, the attempt has failed, and the thread has
\* ended without another attempt
C28_Witness ==
    \E t \in Threads :
       /\ hist.late[t] = 1
       /\ req[t].failed
       /\ req[t].h > start_height[t]
       /\ NumTx(req[t].h - 1) = 0
       /\ written[req[t].h] = 0
       /\ Terminated(t)


\* C29 (Spec): the height a backfill thread has requested last is at most
\* the chain tip minus the confirmation depth (the tip only grows, so the
\* request was then further below the tip of its time)
C29_BackfillHonorsMargin ==
    [][\A t \in Backfill :
          req'[t] # req[t] => req'[t].h <= tip - confirmations]_vars


\* C30 (SpecLive): the tip is bounded and only grows, so it ends by staying
\* at some height T; from some point on every non-empty block between the
\* head follower's start height and T minus the confirmation depth is in
\* the store
C30_HeadFollowerLiveness ==
    <>[](\A h \in start_height[0]..(tip - confirmations) :
            NumTx(h) > 0 => written[h] > 0)


\* the flow edges one write of the block creates, in creation order per batch
FlowEdges(variant, block) ==
    BatchRecords(variant, block).inputs \o BatchRecords(variant, block).outputs

Multiplicity(rows, e) ==
    Cardinality({k \in 1..Len(rows) : rows[k] = e})

\* every node the block needs is in the store
BlockNodesIn(store, variant, block) ==
    /\ \A k \in 1..Len(block) : HasTransaction(store, block[k].tx_id)
    /\ \A k \in 1..Len(FlowEdges(variant, block)) :
          HasAddress(store, FlowEdges(variant, block)[k].address)

\* C31 (SpecW): a successful write adds every flow edge of the block once
\* more to the edges the store held, whether or not they were there, and
\* adds no node if the block's nodes were there; so after the second
\* successful write of a block on an empty store every flow edge of the
\* block is in the store twice as often as one write creates it, and the
\* Transaction and Address nodes are those of the first write
C31_EdgesNotDeduplicated ==
    (w_pc = "idle" /\ w_calls > 0 /\ w_ret = "True") =>
       /\ Len(w_store.edges) = Len(w_pre.edges) + Len(FlowEdges(w_variant, w_block))
       /\ \A k \in 1..Len(w_store.edges) :
             EdgeCount(w_store, w_store.edges[k]) =
                EdgeCount(w_pre, w_store.edges[k])
                + Multiplicity(FlowEdges(w_variant, w_block), w_store.edges[k])
       /\ BlockNodesIn(w_pre, w_variant, w_block) =>
             w_store.txs = w_pre.txs /\ w_store.addrs = w_pre.addrs
       /\ SameStore(w_pre, WriteWhole(w_variant, EmptyStore, w_block)) =>
             /\ BlockNodesIn(w_pre, w_variant, w_block)
             /\ \A k \in 1..Len(FlowEdges(w_variant, w_block)) :
                   EdgeCount(w_store, FlowEdges(w_variant, w_block)[k]) =
                      2 * Multiplicity(FlowEdges(w_variant, w_block),
                                       FlowEdges(w_variant, w_block)[k])

\* C31 witness: the second successful write of a block with flow edges, on
\* the store its first write left
C31_Witness ==
    /\ w_pc = "idle"
    /\ w_calls = 2
    /\ w_ret = "True"
    /\ FlowEdges(w_variant, w_block) # <<>>
    /\ w_pre # EmptyStore
    /\ SameStore(w_pre, WriteWhole(w_variant, EmptyStore, w_block))
    /\ Len(w_store.edges) = 2 * Len(w_pre.edges)
    /\ Len(w_store.txs) = Len(w_pre.txs)
    /\ Len(w_store.addrs) = Len(w_pre.addrs)


\* one SENT edge per output of the transaction, is_coinbase true on the
\* first output of a coinbase transaction only
RECURSIVE EdgePerOutput(_)
EdgePerOutput(block) ==
    IF block = <<>> THEN <<>>
    ELSE [k \in 1..Len(Head(block).vouts) |->
             [dir |-> "out", address |-> Head(block).vouts[k].address,
              amount |-> Head(block).vouts[k].value_satoshi, tx_id |-> Head(block).tx_id,
              is_coinbase |-> Head(block).is_coinbase /\ k = 1]]
         \o EdgePerOutput(Tail(block))

\* C32 (SpecW): a successful write by either writer of the simple schema
\* adds to the store exactly one edge per transaction output of the block,
\* with is_coinbase true exactly on the first output of a coinbase
\* transaction
C32_SimpleSchemaEdgePerOutput ==
    (w_pc = "idle" /\ w_calls > 0 /\ w_ret = "True" /\ w_variant \in {"v1", "flow2"}) =>
       /\ Len(w_store.edges) = Len(w_pre.edges) + Len(EdgePerOutput(w_block))
       /\ \A k \in 1..Len(w_store.edges) :
             EdgeCount(w_store, w_store.edges[k]) =
                EdgeCount(w_pre, w_store.edges[k])
                + Multiplicity(EdgePerOutput(w_block), w_store.edges[k])

\* C32 for the batched simple writer alone
C32_BatchedWriterEdgePerOutput ==
    w_variant = "v1" => C32_SimpleSchemaEdgePerOutput


\* the resolved inputs of the transaction, as (address, amount) rows
ResolvedInputs ==
    [k \in 1..Len(net_resolved) |->
        get_address_and_amount_by_txn_id_and_vout_id(net_resolved[k].tx_id,
                                                     net_resolved[k].vout_id)]

\* the outputs of the transaction, as (address, amount) rows
RawOutputs ==
    [k \in 1..Len(net_vouts) |->
        [address |-> net_vouts[k].address, amount |-> net_vouts[k].value_satoshi]]

RowAddresses(rows) ==
    {rows[k].address : k \in 1..Len(rows)}

\* the sum of the amounts of the rows of address a
RECURSIVE SumOfAddress(_, _)
SumOfAddress(rows, a) ==
    IF rows = <<>> THEN 0
    ELSE (IF Head(rows).address = a THEN Head(rows).amount ELSE 0)
         + SumOfAddress(Tail(rows), a)

RecordsOfAddress(records, a) ==
    {k \in 1..Len(records) : records[k].address = a}

\* exactly one record of address a, and its amount is n
OneRecord(records, a, n) ==
    /\ Cardinality(RecordsOfAddress(records, a)) = 1
    /\ \A k \in RecordsOfAddress(records, a) : records[k].amount = n

\* C33 as stated (SpecNet): every address that appears only among the
\* resolved inputs has exactly one inbound record, every address that
\* appears only among the outputs has exactly one outbound record, and the
\* record's amount is the sum of the raw amounts of the address on that side
C33_SingleSidedAggregation ==
    net_pc = "emitted" =>
       /\ \A a \in RowAddresses(ResolvedInputs) \ RowAddresses(RawOutputs) :
             OneRecord(net_records.inputs, a, SumOfAddress(ResolvedInputs, a))
       /\ \A a \in RowAddresses(RawOutputs) \ RowAddresses(ResolvedInputs) :
             OneRecord(net_records.outputs, a, SumOfAddress(RawOutputs, a))

\* C33 amended (SpecNet): an address that appears on one side only has no
\* record on the other side; on its own side it has exactly one record,
\* whose amount is the sum of its raw amounts on that side, if that sum is
\* not zero, and no record if the sum is zero
C33_SingleSidedNonZero ==
    net_pc = "emitted" =>
       /\ \A a \in RowAddresses(ResolvedInputs) \ RowAddresses(RawOutputs) :
             /\ RecordsOfAddress(net_records.outputs, a) = {}
             /\ IF SumOfAddress(ResolvedInputs, a) # 0
                THEN OneRecord(net_records.inputs, a, SumOfAddress(ResolvedInputs, a))
                ELSE RecordsOfAddress(net_records.inputs, a) = {}
       /\ \A a \in RowAddresses(RawOutputs) \ RowAddresses(ResolvedInputs) :
             /\ RecordsOfAddress(net_records.inputs, a) = {}
             /\ IF SumOfAddress(RawOutputs, a) # 0
                THEN OneRecord(net_records.outputs, a, SumOfAddress(RawOutputs, a))
                ELSE RecordsOfAddress(net_records.outputs, a) = {}

\* C33 witness: the records of a transaction have been emitted in which one
\* address spends two inputs and receives nothing, another receives two
\* outputs and spends nothing, and each has one record with the sum
C33_Witness ==
    /\ net_pc = "emitted"
    /\ \E a \in RowAddresses(ResolvedInputs) \ RowAddresses(RawOutputs) :
          /\ Len(ResolvedInputs) = 2
          /\ SumOfAddress(ResolvedInputs, a) = 2
          /\ OneRecord(net_records.inputs, a, 2)
    /\ \E a \in RowAddresses(RawOutputs) \ RowAddresses(ResolvedInputs) :
          /\ Len(RawOutputs) = 2
          /\ SumOfAddress(RawOutputs, a) = 2
          /\ OneRecord(net_records.outputs, a, 2)


\* C34 (SpecNet): the in_total_amount of the emitted transaction record
\* minus its out_total_amount is the sum of the amounts of all resolved
\* inputs minus the sum of the amounts of all outputs
C34_NettingPreservesBalance ==
    net_pc = "emitted" =>
       net_records.txn.in_total_amount - net_records.txn.out_total_amount
          = SumRecords(ResolvedInputs) - SumValues(net_vouts)

\* C34 witness: the records of a transaction have been emitted whose
\* netting removed value from both totals and whose inputs exceed its
\* outputs
C34_Witness ==
    /\ net_pc = "emitted"
    /\ net_records.txn.in_total_amount < SumRecords(ResolvedInputs)
    /\ net_records.txn.out_total_amount < SumValues(net_vouts)
    /\ SumRecords(ResolvedInputs) > SumValues(net_vouts)
    /\ net_records.txn.in_total_amount > 0


\* C35 (SpecSync): with wait_for_sync off the function returns False
\* without a pass of the loop; with it on the function returns only True,
\* and only straight after a pass that read both heights with a difference
\* below 100; a pass that ended in the except clause is followed by the
\* sleep and then by the loop test with is_synced still False, never by a
\* return
C35_MinerSyncGate ==
    /\ [](/\ (sync_pc = "returned" /\ ~wait_for_sync) =>
                sync_ret = "False" /\ sync_polls = 0
          /\ (sync_pc = "returned" /\ wait_for_sync) =>
                /\ sync_ret = "True"
                /\ sync_polls > 0
                /\ sync_last = "synced"
                /\ sync_latest_block_height - sync_current_block_height < 100
          /\ sync_last = "raised" => ~is_synced /\ sync_pc # "returned")
    /\ [][sync_raises' # sync_raises => sync_pc' = "sleep"]_vars
    /\ [][(sync_pc = "sleep" /\ sync_last = "raised") => sync_pc' = "loop"]_vars
    /\ [][(sync_pc = "loop" /\ sync_last \in {"raised", "behind"}) => sync_pc' = "poll"]_vars

\* C35 witness: the function has returned True after a pass that raised and
\* a pass that found the store 100 or more blocks behind
C35_Witness ==
    /\ sync_pc = "returned"
    /\ sync_ret = "True"
    /\ sync_polls = 3
    /\ sync_raises = 1
    /\ sync_latest_block_height - sync_current_block_height = 99

\* C35 second witness state: wait_for_sync is off and the function has returned
C35_SkipWitness ==
    sync_pc = "returned" /\ ~wait_for_sync /\ sync_ret = "False"


\* C36 (SpecVal): the content of a miner response never ends the validator
\* loop: main does not return while a round is being scored, so every
\* response of the round that carries an output is scored.  The code returns
\* False from main at the first data sample that fails verification
C36_ResponseContentNeverEndsLoop ==
    ~(val_pc = "ended" /\ val_end = "returned")

\* C36, the whole sentence: main ends only on KeyboardInterrupt or when the
\* hotkey is not registered
C36_LoopEndsOnlyOnInterruptOrUnregistered ==
    val_pc = "ended" => val_end \in {"KeyboardInterrupt", "not_registered"}

\* C36: the state the claim excludes: main has returned from inside the for
\* loop, with a later response of the round that carries an output and was
\* never scored
C36_UnscoredAfterReturn ==
    /\ val_pc = "ended"
    /\ val_end = "returned"
    /\ \E i \in 1..Len(val_responses) :
          /\ i > val_index
          /\ val_responses[i].output
          /\ val_responses[i].bad = 0
          /\ \A v \in BOOLEAN : <<i, v>> \notin val_scored

\* C36: what the code does keep: a round that reaches its end has scored
\* every response that carries an output, and a RuntimeError or a response
\* without output does not end main
C36_CompletedRoundScoresAll ==
    (val_pc = "response" /\ val_index > Len(val_responses)) =>
        \A i \in 1..Len(val_responses) :
            val_responses[i].output =>
                <<i, DataSamplesAreValid(val_responses[i])>> \in val_scored

=============================================================================
